---- MODULE Spec2Model ----
(***************************************************************************)
(* SongLang: the graph of named nodes (Graph.ts, Node.ts), the tree-walking *)
(* interpreter (Interpreter.ts) and the front end that feeds it            *)
(* (Tokenizer.ts, Parser.ts).                                              *)
(*                                                                         *)
(* A node is identified by its name: the graph never drops a node, so a    *)
(* reference to a SongNode object is the key under which Graph.nodes holds *)
(* it.  An interpreter is the record                                       *)
(*   [nodes, parents, properties, context, whenSubject, output, error,      *)
(*    draws]                                                                *)
(* where `output` collects the lines handed to onOutput during the current *)
(* call of execute, `error` is the exception that call is propagating      *)
(* ("none" while it runs normally) and `draws` are the numbers the coming  *)
(* calls of Math.random return, in order.  `store` and `returned` belong   *)
(* to the console's store, which drives the same interpreter.              *)
(***************************************************************************)
EXTENDS Integers, Sequences, FiniteSets, TLC

VARIABLES nodes, parents, properties, context, whenSubject, output, error, last, steps, drawn,
          store, returned

vars == <<nodes, parents, properties, context, whenSubject, output, error, last, steps, drawn,
          store, returned>>

(***************************************************************************)
(* Bounds of the model.                                                    *)
(***************************************************************************)
\* top-level execute calls in one behaviour
MaxSteps == 3
\* nested execute(doBody) calls before the host's call stack is exhausted
MaxDepth == 3

(***************************************************************************)
(* Runtime values.                                                         *)
(***************************************************************************)
Null == [t |-> "null"]
Num(n) == [t |-> "number", v |-> n]
Str(s) == [t |-> "string", v |-> s]
Bool(b) == [t |-> "boolean", v |-> b]
NodeRef(n) == [t |-> "node", v |-> n]
StringSet(S) == [t |-> "set", v |-> S]
NodeList(q) == [t |-> "list", v |-> q]
RoleList(q) == [t |-> "roles", v |-> q]
StatementList(b) == [t |-> "body", v |-> b]
\* an exception leaving an evaluation instead of a value
Thrown(e) == [t |-> "throw", v |-> e]
IsThrown(v) == v.t = "throw"

\* `null` of a SongNode | null
NoNode == "<null>"
\* "Maximum call stack size exceeded": what unbounded recursion ends in
RangeError == "RangeError"

(***************************************************************************)
(* Maps (Map<string, ...>) and arrays.                                     *)
(***************************************************************************)
EmptyMap == [k \in {} |-> k]
Put(m, k, v) == [y \in (DOMAIN m) \cup {k} |-> IF y = k THEN v ELSE m[y]]
Delete(m, k) == [y \in (DOMAIN m) \ {k} |-> m[y]]
Has(m, k) == k \in DOMAIN m

Includes(q, x) == \E i \in 1..Len(q) : q[i] = x
\* Array.indexOf, 1-based; 0 when absent
IndexOf(q, x) == IF Includes(q, x) THEN CHOOSE i \in 1..Len(q) : q[i] = x /\ \A j \in 1..(i - 1) : q[j] # x ELSE 0
\* Array.splice(index, 1)
Splice(q, i) == SubSeq(q, 1, i - 1) \o SubSeq(q, i + 1, Len(q))

(***************************************************************************)
(* The characters of the words the model's programs are written with.      *)
(* TLA+ strings are atoms, so every word carries its character codes.      *)
(***************************************************************************)
Codes ==
    ("IS" :> <<73, 83>>) @@ ("HAS" :> <<72, 65, 83>>) @@ ("PRINT" :> <<80, 82, 73, 78, 84>>)
    @@ ("is" :> <<105, 115>>) @@ ("has" :> <<104, 97, 115>>) @@ ("Has" :> <<72, 97, 115>>)
    @@ ("CAN" :> <<67, 65, 78>>) @@ ("RELATION" :> <<82, 69, 76, 65, 84, 73, 79, 78>>)
    @@ ("A" :> <<65>>) @@ ("B" :> <<66>>) @@ ("C" :> <<67>>)
    @@ ("P" :> <<80>>) @@ ("Q" :> <<81>>) @@ ("V" :> <<86>>) @@ ("W" :> <<87>>)
    @@ ("HP" :> <<72, 80>>) @@ ("Name" :> <<78, 97, 109, 101>>)
    @@ ("Orc" :> <<79, 114, 99>>) @@ ("Goblin" :> <<71, 111, 98, 108, 105, 110>>)
    @@ ("Monster" :> <<77, 111, 110, 115, 116, 101, 114>>)
    @@ ("Hit" :> <<72, 105, 116>>) @@ ("Nope" :> <<78, 111, 112, 101>>)
    @@ ("self" :> <<115, 101, 108, 102>>) @@ ("other" :> <<111, 116, 104, 101, 114>>)
    @@ ("m" :> <<109>>) @@ ("v" :> <<118>>) @@ ("x" :> <<120>>)
    @@ ("QueryResult" :> <<81, 117, 101, 114, 121, 82, 101, 115, 117, 108, 116>>)
    @@ ("_Abilities" :> <<95, 65, 98, 105, 108, 105, 116, 105, 101, 115>>)
    @@ ("_DoBody" :> <<95, 68, 111, 66, 111, 100, 121>>)
    @@ ("_Items" :> <<95, 73, 116, 101, 109, 115>>)
    @@ ("_Roles" :> <<95, 82, 111, 108, 101, 115>>)
    @@ ("_Hit" :> <<95, 72, 105, 116>>) @@ ("_x" :> <<95, 120>>)
    @@ ("5" :> <<53>>) @@ ("0" :> <<48>>) @@ ("$" :> <<36>>) @@ ("" :> <<>>)
    @@ ("Knight" :> <<75, 110, 105, 103, 104, 116>>) @@ ("Squire" :> <<83, 113, 117, 105, 114, 101>>)
    @@ ("ATTACK" :> <<65, 84, 84, 65, 67, 75>>) @@ ("DEFEND" :> <<68, 69, 70, 69, 78, 68>>)
    @@ ("w" :> <<119>>) @@ ("Heal" :> <<72, 101, 97, 108>>)

\* String.prototype.toUpperCase / toLowerCase, on character codes
UpperCode(c) == IF c >= 97 /\ c <= 122 THEN c - 32 ELSE c
LowerCode(c) == IF c >= 65 /\ c <= 90 THEN c + 32 ELSE c
toUpperCase(cs) == [i \in 1..Len(cs) |-> UpperCode(cs[i])]
toLowerCase(cs) == [i \in 1..Len(cs) |-> LowerCode(cs[i])]
\* key.startsWith('_')
startsWithUnderscore(word) == Len(Codes[word]) > 0 /\ Codes[word][1] = 95
\* the word a run of characters spells
Text(cs) == CHOOSE w \in DOMAIN Codes : Codes[w] = cs

(***************************************************************************)
(* Graph                                                                   *)
(***************************************************************************)
getNode(I, name) == IF Has(I.parents, name) THEN name ELSE NoNode

getOrCreateNode(I, name) ==
    IF Has(I.parents, name) THEN I
    ELSE [I EXCEPT !.nodes = Append(@, name),
                   !.parents = Put(@, name, <<>>),
                   !.properties = Put(@, name, EmptyMap)]

allNodes(I) == I.nodes

\* the IS edges of toJSON, node by node in graph order, parents in declared order
RECURSIVE edgesFrom(_, _)
edgesFrom(I, i) ==
    IF i > Len(I.nodes) THEN <<>>
    ELSE [k \in 1..Len(I.parents[I.nodes[i]]) |->
             [source |-> I.nodes[i], target |-> I.parents[I.nodes[i]][k], type |-> "IS"]]
         \o edgesFrom(I, i + 1)

\* the properties toJSON shows: no internal key, no node reference
shownProperties(props) ==
    [key \in {k \in DOMAIN props : ~startsWithUnderscore(k) /\ props[k].t # "node"} |-> props[key]]

\* Array.from(abilitiesSet), as the set of its elements; [] without an own Set
abilitiesOf(props) ==
    IF Has(props, "_Abilities") /\ props["_Abilities"].t = "set" THEN props["_Abilities"].v ELSE {}

toJSON(I) ==
    [nodes |-> [i \in 1..Len(I.nodes) |->
                   [id |-> I.nodes[i], name |-> I.nodes[i],
                    properties |-> shownProperties(I.properties[I.nodes[i]]),
                    abilities |-> abilitiesOf(I.properties[I.nodes[i]])]],
     edges |-> edgesFrom(I, 1)]

(***************************************************************************)
(* SongNode                                                                *)
(*                                                                         *)
(* getProperty, is and nodeCan recurse through the parents with no record  *)
(* of the nodes already visited.  `path` is the set of nodes whose call is *)
(* on the stack: a call that reaches one of them again repeats itself      *)
(* without end, and the result is the call stack's RangeError.             *)
(***************************************************************************)
RECURSIVE lookupFrom(_, _, _, _), lookupParents(_, _, _, _, _)
\* [holder, value]: the node whose own property answered, and its value
lookupFrom(I, n, name, path) ==
    IF n \in path THEN [holder |-> NoNode, value |-> Thrown(RangeError)]
    ELSE IF Has(I.properties[n], name) THEN [holder |-> n, value |-> I.properties[n][name]]
    ELSE lookupParents(I, n, name, path \cup {n}, 1)

lookupParents(I, n, name, path, i) ==
    IF i > Len(I.parents[n]) THEN [holder |-> NoNode, value |-> Null]
    ELSE LET r == lookupFrom(I, I.parents[n][i], name, path)
         IN  IF r.value # Null THEN r ELSE lookupParents(I, n, name, path, i + 1)

\* a lookup that never turns to the parents
getPropertyOwnOnly(I, n, name) == IF Has(I.properties[n], name) THEN I.properties[n][name] ELSE Null
getProperty(I, n, name) == lookupFrom(I, n, name, {}).value
\* the node that owns the object getProperty returns (a Set or an array is shared)
propertyHolder(I, n, name) == lookupFrom(I, n, name, {}).holder

setProperty(I, n, name, value) == [I EXCEPT !.properties = Put(@, n, Put(@[n], name, value))]
hasOwnProperty(I, n, name) == Has(I.properties[n], name)
removeProperty(I, n, name) == [I EXCEPT !.properties = Put(@, n, Delete(@[n], name))]

\* a push with no includes test
addParentAlways(I, n, parent) == [I EXCEPT !.parents = Put(@, n, Append(@[n], parent))]
addParent(I, n, parent) ==
    IF ~Includes(I.parents[n], parent) THEN [I EXCEPT !.parents = Put(@, n, Append(@[n], parent))] ELSE I

\* an index test that takes position 0 for "absent"
removeParentUnlessFirst(I, n, parent) ==
    LET index == IndexOf(I.parents[n], parent)
    IN  IF index > 1 THEN [I EXCEPT !.parents = Put(@, n, Splice(@[n], index))] ELSE I

removeParent(I, n, parent) ==
    LET index == IndexOf(I.parents[n], parent)
    IN  IF index # 0 THEN [I EXCEPT !.parents = Put(@, n, Splice(@[n], index))] ELSE I

RECURSIVE isFrom(_, _, _, _), isParents(_, _, _, _, _)
\* "true", "false", or RangeError
isFrom(I, n, typeName, path) ==
    IF n \in path THEN RangeError
    ELSE IF n = typeName THEN "true"
    ELSE isParents(I, n, typeName, path \cup {n}, 1)

isParents(I, n, typeName, path, i) ==
    IF i > Len(I.parents[n]) THEN "false"
    ELSE LET r == isFrom(I, I.parents[n][i], typeName, path)
         IN  IF r = "false" THEN isParents(I, n, typeName, path, i + 1) ELSE r

\* a test that every node passes
isAlways(I, n, typeName) == "true"
is(I, n, typeName) == isFrom(I, n, typeName, {})

(***************************************************************************)
(* Expression evaluation                                                   *)
(***************************************************************************)
\* A number is an integer, Num(n), or a fraction in lowest terms with a
\* denominator q > 1, which then has the field q.
denominator(x) == IF "q" \in DOMAIN x THEN x.q ELSE 1
RECURSIVE GCD(_, _)
GCD(a, b) == IF b = 0 THEN a ELSE GCD(b, a % b)
Abs(n) == IF n < 0 THEN 0 - n ELSE n
\* the number p / q, for q # 0
Number(p, q) ==
    LET g == GCD(Abs(p), Abs(q))
        n == (IF q < 0 THEN 0 - p ELSE p) \div g
    IN  IF Abs(q) = g THEN Num(n) ELSE [t |-> "number", v |-> n, q |-> Abs(q) \div g]
\* Math.floor
floor(x) == Num(x.v \div denominator(x))
\* the integer part, rounded toward zero
trunc(x) == IF x.v < 0 THEN Num(0 - (Abs(x.v) \div denominator(x))) ELSE floor(x)

isTruthy(value) ==
    IF value.t = "null" THEN FALSE
    ELSE IF value.t = "boolean" THEN value.v
    ELSE IF value.t = "number" THEN value.v # 0
    ELSE IF value.t = "string" THEN value.v # ""
    ELSE IF value.t = "node" THEN TRUE
    ELSE TRUE

toNumber(value) ==
    IF value.t = "number" THEN value
    ELSE IF value.t = "boolean" THEN Num(IF value.v THEN 1 ELSE 0)
    ELSE Thrown("TypeMismatch")

equals(left, right) ==
    IF left.t = "null" /\ right.t = "null" THEN TRUE
    ELSE IF left.t = "null" \/ right.t = "null" THEN FALSE
    ELSE left = right

\* -1, 0, 1 as a number value, or the TypeMismatch of toNumber
compare(left, right) ==
    LET l == toNumber(left)
        r == toNumber(right)
    IN  IF IsThrown(l) THEN l
        ELSE IF IsThrown(r) THEN r
        ELSE IF l.v * denominator(r) < r.v * denominator(l) THEN Num(-1)
        ELSE IF l.v * denominator(r) > r.v * denominator(l) THEN Num(1)
        ELSE Num(0)

\* String(value) and `${value}`, of a string, an integer, a boolean or null
String(value) ==
    CASE value.t = "string" -> value.v
      [] value.t = "number" /\ denominator(value) = 1 -> ToString(value.v)
      [] value.t = "boolean" -> IF value.v THEN "true" ELSE "false"
      [] value.t = "null" -> "null"

\* l + r, l - r, l * r, l / r and l % r of two numbers (r # 0 in the last two;
\* the sign of l % r is that of l)
plus(l, r) == Number(l.v * denominator(r) + r.v * denominator(l), denominator(l) * denominator(r))
minus(l, r) == Number(l.v * denominator(r) - r.v * denominator(l), denominator(l) * denominator(r))
times(l, r) == Number(l.v * r.v, denominator(l) * denominator(r))
over(l, r) == Number(l.v * denominator(r), denominator(l) * r.v)
remainder(l, r) == minus(l, times(r, trunc(over(l, r))))

add(left, right) ==
    IF left.t = "string" \/ right.t = "string" THEN Str(String(left) \o String(right))
    ELSE IF IsThrown(toNumber(left)) THEN toNumber(left)
    ELSE IF IsThrown(toNumber(right)) THEN toNumber(right)
    ELSE plus(toNumber(left), toNumber(right))

\* Subtract and Multiply convert the left operand first; Divide and Modulo
\* convert and test the divisor first
arithmetic(operator, leftVal, rightVal) ==
    LET l == toNumber(leftVal)
        r == toNumber(rightVal)
    IN  CASE operator = "Add" -> add(leftVal, rightVal)
          [] operator \in {"Subtract", "Multiply"} ->
                IF IsThrown(l) THEN l
                ELSE IF IsThrown(r) THEN r
                ELSE IF operator = "Subtract" THEN minus(l, r) ELSE times(l, r)
          [] operator \in {"Divide", "Modulo"} ->
                IF IsThrown(r) THEN r
                ELSE IF r.v = 0 THEN Thrown("DivisionByZero")
                ELSE IF IsThrown(l) THEN l
                ELSE IF operator = "Divide" THEN over(l, r) ELSE remainder(l, r)

resolveIdentifier(I, name) ==
    IF Has(I.context, name) THEN I.context[name]
    ELSE IF getNode(I, name) # NoNode THEN NodeRef(name)
    ELSE LET propValue == IF I.whenSubject # NoNode
                          THEN getProperty(I, I.whenSubject, name) ELSE Null
         IN  IF propValue # Null THEN propValue ELSE Thrown("NodeNotFound")

RECURSIVE evaluateExpression(_, _), drawsUsed(_, _)
\* Math.random(), and the interpreter after k calls of it
random(I) == I.draws[1]
Consumed(I, k) == [I EXCEPT !.draws = SubSeq(@, k + 1, Len(@))]
\* the interpreter after the evaluation of expr: evaluation changes nothing
\* but the numbers Math.random has left to return
afterEvaluating(I, expr) == Consumed(I, drawsUsed(I, expr))

resolvePropertyAccess(I, prop) ==
    LET obj == evaluateExpression(I, prop.object)
    IN  IF IsThrown(obj) THEN obj
        ELSE IF obj.t = "node"
        THEN LET value == getProperty(I, obj.v, prop.property)
             IN  IF value = Null THEN Thrown("PropertyNotFound") ELSE value
        ELSE Thrown("TypeMismatch")

\* the comparison operators on the result of compare
comparison(operator, cmp) ==
    IF IsThrown(cmp) THEN cmp
    ELSE CASE operator = "LessThan" -> Bool(cmp.v < 0)
           [] operator = "GreaterThan" -> Bool(cmp.v > 0)
           [] operator = "LessEqual" -> Bool(cmp.v <= 0)
           [] operator = "GreaterEqual" -> Bool(cmp.v >= 0)

\* the switch of evaluateBinary on two evaluated operands
applyOperator(operator, leftVal, rightVal) ==
    IF IsThrown(rightVal) THEN rightVal
    ELSE CASE operator \in {"Add", "Subtract", "Multiply", "Divide", "Modulo"} ->
                arithmetic(operator, leftVal, rightVal)
           [] operator = "Equal" -> Bool(equals(leftVal, rightVal))
           [] operator = "NotEqual" -> Bool(~equals(leftVal, rightVal))
           [] OTHER -> comparison(operator, compare(leftVal, rightVal))

\* AND and OR that evaluate both operands before they look at the left one
evaluateBinaryEager(I, bin) ==
    LET left == evaluateExpression(I, bin.left)
        right == evaluateExpression(afterEvaluating(I, bin.left), bin.right)
    IN  IF IsThrown(left) THEN left
        ELSE IF IsThrown(right) THEN right
        ELSE IF bin.operator = "And" THEN Bool(isTruthy(left) /\ isTruthy(right))
        ELSE IF bin.operator = "Or" THEN Bool(isTruthy(left) \/ isTruthy(right))
        ELSE applyOperator(bin.operator, left, right)

evaluateBinary(I, bin) ==
    IF bin.operator = "And"
    THEN LET left == evaluateExpression(I, bin.left)
         IN  IF IsThrown(left) THEN left
             ELSE IF ~isTruthy(left) THEN Bool(FALSE)
             ELSE LET right == evaluateExpression(afterEvaluating(I, bin.left), bin.right)
                  IN  IF IsThrown(right) THEN right ELSE Bool(isTruthy(right))
    ELSE IF bin.operator = "Or"
    THEN LET left == evaluateExpression(I, bin.left)
         IN  IF IsThrown(left) THEN left
             ELSE IF isTruthy(left) THEN Bool(TRUE)
             ELSE LET right == evaluateExpression(afterEvaluating(I, bin.left), bin.right)
                  IN  IF IsThrown(right) THEN right ELSE Bool(isTruthy(right))
    ELSE LET leftVal == evaluateExpression(I, bin.left)
         IN  IF IsThrown(leftVal) THEN leftVal
             ELSE applyOperator(bin.operator, leftVal,
                                evaluateExpression(afterEvaluating(I, bin.left), bin.right))

evaluateUnary(I, unary) ==
    LET operand == evaluateExpression(I, unary.operand)
    IN  IF IsThrown(operand) THEN operand
        ELSE IF unary.operator = "Negate"
        THEN LET n == toNumber(operand) IN IF IsThrown(n) THEN n ELSE minus(Num(0), n)
        ELSE Bool(~isTruthy(operand))

\* a draw scaled and rounded to the nearest integer
randomBetweenRounded(min, max, r) ==
    plus(floor(plus(times(r, plus(minus(max, min), Num(1))), Number(1, 2))), min)

\* Math.floor(Math.random() * (max - min + 1)) + min, for the draw r
randomBetween(min, max, r) == plus(floor(times(r, plus(minus(max, min), Num(1)))), min)

\* evaluateRandom once both bounds are evaluated; `I` is the interpreter then
randomOf(I, minValue, maxValue) ==
    IF IsThrown(maxValue) THEN maxValue
    ELSE IF IsThrown(toNumber(minValue)) THEN toNumber(minValue)
    ELSE IF IsThrown(toNumber(maxValue)) THEN toNumber(maxValue)
    ELSE randomBetween(floor(toNumber(minValue)), floor(toNumber(maxValue)), random(I))

\* evaluateRandom once the lower bound is evaluated
randomFrom(I, expr, minValue) ==
    IF IsThrown(minValue) THEN minValue
    ELSE randomOf(afterEvaluating(I, expr.max), minValue, evaluateExpression(I, expr.max))

evaluateRandom(I, expr) ==
    randomFrom(afterEvaluating(I, expr.min), expr, evaluateExpression(I, expr.min))

\* whether the evaluation of a binary expression reaches its right operand
reachesRight(bin, left) ==
    /\ ~IsThrown(left)
    /\ bin.operator = "And" => isTruthy(left)
    /\ bin.operator = "Or" => ~isTruthy(left)

\* whether the evaluation of a random expression reaches its call of Math.random
reachesRandom(minValue, maxValue) ==
    ~IsThrown(randomOf([draws |-> <<Num(0)>>], minValue, maxValue))

\* the calls of Math.random the evaluation of expr makes
drawsUsed(I, expr) ==
    CASE expr.kind \in {"number", "string", "identifier"} -> 0
      [] expr.kind = "propertyAccess" -> drawsUsed(I, expr.object)
      [] expr.kind = "grouping" -> drawsUsed(I, expr.inner)
      [] expr.kind = "unary" -> drawsUsed(I, expr.operand)
      [] expr.kind = "binary" ->
            drawsUsed(I, expr.left)
                + (IF reachesRight(expr, evaluateExpression(I, expr.left))
                   THEN drawsUsed(Consumed(I, drawsUsed(I, expr.left)), expr.right) ELSE 0)
      [] expr.kind = "random" ->
            drawsUsed(I, expr.min)
                + (IF IsThrown(evaluateExpression(I, expr.min)) THEN 0
                   ELSE drawsUsed(Consumed(I, drawsUsed(I, expr.min)), expr.max)
                        + (IF reachesRandom(evaluateExpression(I, expr.min),
                                            evaluateExpression(Consumed(I, drawsUsed(I, expr.min)), expr.max))
                           THEN 1 ELSE 0))

evaluateExpression(I, expr) ==
    CASE expr.kind = "number" -> Num(expr.value)
      [] expr.kind = "string" -> Str(expr.value)
      [] expr.kind = "identifier" -> resolveIdentifier(I, expr.name)
      [] expr.kind = "propertyAccess" -> resolvePropertyAccess(I, expr)
      [] expr.kind = "binary" -> evaluateBinary(I, expr)
      [] expr.kind = "unary" -> evaluateUnary(I, expr)
      [] expr.kind = "grouping" -> evaluateExpression(I, expr.inner)
      [] expr.kind = "random" -> evaluateRandom(I, expr)

(***************************************************************************)
(* Statements                                                              *)
(*                                                                         *)
(* A statement is the record the parser builds (Statement.ts).  A field    *)
(* that may be null is a sequence of length 0 or 1.  The arguments of a    *)
(* relation are raw literals: Str for an identifier or a string literal    *)
(* (the parser keeps no difference), Num for a number.                     *)
(***************************************************************************)
Throw(I, e) == [I EXCEPT !.error = e]
Failed(I) == I.error # "none"
onOutput(I, line) == [I EXCEPT !.output = Append(@, line)]

\* the node a name denotes: a context binding to a node wins over the graph
resolved(I, name) ==
    IF Has(I.context, name) /\ I.context[name].t = "node" THEN I.context[name].v ELSE name

resolveNode(I, name) ==
    IF Has(I.context, name) /\ I.context[name].t = "node" THEN I ELSE getOrCreateNode(I, name)

resolveNodeOrNull(I, name) ==
    IF Has(I.context, name) /\ I.context[name].t = "node" THEN I.context[name].v ELSE getNode(I, name)

executeIs(I, subject, stmt) ==
    IF Len(stmt.arguments) = 0 THEN Throw(I, "InterpreterError")
    ELSE LET objName == String(stmt.arguments[1])
         IN  addParent(resolveNode(I, objName), subject, resolved(I, objName))

\* a value stored as it was written
promotedNever(I, value) == value

\* a promotion that does not ask the graph
promotedAlways(I, value) == IF value.t = "string" THEN NodeRef(value.v) ELSE value

\* the value executeHas stores: a string naming a node of the graph becomes that node
promoted(I, value) ==
    IF value.t = "string" /\ getNode(I, value.v) # NoNode THEN NodeRef(value.v) ELSE value

executeHas(I, subject, stmt) ==
    IF Len(stmt.arguments) = 0 THEN Throw(I, "InterpreterError")
    ELSE LET propName == stmt.arguments[1]
             value == IF Len(stmt.arguments) >= 2 THEN stmt.arguments[2] ELSE Null
         IN  setProperty(I, subject, String(propName), promoted(I, value))

\* node.setProperty(stmt.property, value), unless the evaluation threw
setEvaluated(I, node, property, value) ==
    IF IsThrown(value) THEN Throw(I, value.v) ELSE setProperty(I, node, property, value)

\* the rest of executeHasExpression once the subject is resolved
hasExpressionOn(I, node, stmt) ==
    setEvaluated(afterEvaluating(I, stmt.valueExpression), node, stmt.property,
                 evaluateExpression(I, stmt.valueExpression))

executeHasExpression(I, stmt) ==
    hasExpressionOn(resolveNode(I, stmt.subject), resolved(I, stmt.subject), stmt)

executePrint(I, subject) ==
    LET name == getProperty(I, subject, "Name")
    IN  IF IsThrown(name) THEN Throw(I, name.v)
        ELSE IF name = Null THEN onOutput(I, subject)
        ELSE onOutput(I, String(name))

\* the output of executeExpressionPrint for an evaluated subject
printValue(I, value) ==
    IF IsThrown(value) THEN Throw(I, value.v)
    ELSE IF value.t = "node"
    THEN LET name == getProperty(I, value.v, "Name")
         IN  IF IsThrown(name) THEN Throw(I, name.v)
             ELSE onOutput(I, IF name # Null THEN String(name) ELSE value.v)
    ELSE onOutput(I, String(value))

executeExpressionPrint(I, stmt) ==
    printValue(afterEvaluating(I, stmt.subject), evaluateExpression(I, stmt.subject))

executeRoleDefinition(I, stmt) ==
    LET I1 == getOrCreateNode(I, stmt.subject)
        found == lookupFrom(I1, stmt.subject, "_Roles", {})
    IN  IF IsThrown(found.value) THEN Throw(I1, found.value.v)
        ELSE IF found.value = Null
        THEN setProperty(I1, stmt.subject, "_Roles", RoleList(<<stmt.roleName>>))
        ELSE IF found.value.t # "roles" THEN Throw(I1, "TypeError")
        ELSE IF ~Includes(found.value.v, stmt.roleName)
        THEN setProperty(I1, found.holder, "_Roles", RoleList(Append(found.value.v, stmt.roleName)))
        ELSE I1

executeDoBlock(I, stmt) ==
    setProperty(resolveNode(I, stmt.subject), resolved(I, stmt.subject), "_DoBody", StatementList(stmt.body))

executeCan(I, stmt) ==
    LET I1 == resolveNode(I, stmt.subject)
        subject == resolved(I, stmt.subject)
        found == lookupFrom(I1, subject, "_Abilities", {})
    IN  IF IsThrown(found.value) THEN Throw(I1, found.value.v)
        ELSE IF found.value = Null
        THEN setProperty(I1, subject, "_Abilities", StringSet({stmt.ability}))
        ELSE IF found.value.t # "set" THEN Throw(I1, "TypeError")
        ELSE setProperty(I1, found.holder, "_Abilities", StringSet(found.value.v \cup {stmt.ability}))

executeLoses(I, stmt) ==
    LET I1 == resolveNode(I, stmt.subject)
        subject == resolved(I, stmt.subject)
        parent == resolveNodeOrNull(I1, stmt.target)
        found == lookupFrom(I1, subject, "_Abilities", {})
    IN  IF stmt.type = "Is"
        THEN IF parent # NoNode THEN removeParent(I1, subject, parent) ELSE I1
        ELSE IF IsThrown(found.value) THEN Throw(I1, found.value.v)
        ELSE IF found.value # Null /\ found.value.t # "set" THEN Throw(I1, "TypeError")
        ELSE IF found.value # Null /\ stmt.target \in found.value.v
        THEN setProperty(I1, found.holder, "_Abilities", StringSet(found.value.v \ {stmt.target}))
        ELSE IF hasOwnProperty(I1, subject, stmt.target) THEN removeProperty(I1, subject, stmt.target)
        ELSE I1

RECURSIVE nodeCanFrom(_, _, _, _), nodeCanParents(_, _, _, _, _)
\* "true", "false", or the error thrown
nodeCanFrom(I, node, ability, path) ==
    LET abilities == getProperty(I, node, "_Abilities")
    IN  IF node \in path THEN RangeError
        ELSE IF IsThrown(abilities) THEN abilities.v
        ELSE IF abilities # Null /\ abilities.t # "set" THEN "TypeError"
        ELSE IF abilities # Null /\ ability \in abilities.v THEN "true"
        ELSE nodeCanParents(I, node, ability, path \cup {node}, 1)

nodeCanParents(I, node, ability, path, i) ==
    IF i > Len(I.parents[node]) THEN "false"
    ELSE LET r == nodeCanFrom(I, I.parents[node][i], ability, path)
         IN  IF r = "false" THEN nodeCanParents(I, node, ability, path, i + 1) ELSE r

nodeCan(I, node, ability) == nodeCanFrom(I, node, ability, {})

(***************************************************************************)
(* Queries                                                                 *)
(***************************************************************************)
matchesIsQuery(I, node, stmt) ==
    IF Len(stmt.target) = 0 THEN "true" ELSE is(I, node, stmt.target[1])

matchesHasQuery(I, node, stmt) ==
    LET propValue == getProperty(I, node, stmt.target[1])
    IN  IF Len(stmt.target) = 0
        THEN (IF DOMAIN I.properties[node] # {} THEN "true" ELSE "false")
        ELSE IF IsThrown(propValue) THEN propValue.v
        ELSE IF propValue = Null THEN "false"
        ELSE IF stmt.targetValue = Null THEN "true"
        ELSE IF stmt.targetValue.t = "number" /\ propValue.t = "number"
        THEN (IF Abs(minus(stmt.targetValue, propValue).v) * 10000
                    < denominator(minus(stmt.targetValue, propValue))
              THEN "true" ELSE "false")
        ELSE IF stmt.targetValue = propValue THEN "true" ELSE "false"

matchesCanQuery(I, node, stmt) ==
    LET abilities == getProperty(I, node, "_Abilities")
    IN  IF Len(stmt.target) = 0
        THEN (IF IsThrown(abilities) THEN abilities.v
              ELSE IF abilities # Null /\ abilities.t = "set" /\ abilities.v # {} THEN "true"
              ELSE "false")
        ELSE nodeCan(I, node, stmt.target[1])

matches(I, node, stmt) ==
    CASE stmt.relation = "IS" -> matchesIsQuery(I, node, stmt)
      [] stmt.relation = "HAS" -> matchesHasQuery(I, node, stmt)
      [] stmt.relation = "CAN" -> matchesCanQuery(I, node, stmt)
      [] OTHER -> "false"

RECURSIVE findMatchingFrom(_, _, _, _)
\* one round of the loop of findMatchingNodes, m the outcome of the test
findMatchingNext(I, stmt, i, result, m) ==
    IF m = "true" THEN findMatchingFrom(I, stmt, i + 1, Append(result, allNodes(I)[i]))
    ELSE IF m = "false" THEN findMatchingFrom(I, stmt, i + 1, result)
    ELSE Thrown(m)

\* the NodeList of the matches, or the error one of the tests threw
findMatchingFrom(I, stmt, i, result) ==
    IF i > Len(allNodes(I)) THEN NodeList(result)
    ELSE findMatchingNext(I, stmt, i, result, matches(I, allNodes(I)[i], stmt))

findMatchingNodes(I, stmt) == findMatchingFrom(I, stmt, 1, <<>>)

\* what filterByWhereCondition keeps: a boolean true or a number other than 0
whereKeepsTruthy(conditionResult) == ~IsThrown(conditionResult) /\ isTruthy(conditionResult)
whereKeeps(conditionResult) ==
    \/ conditionResult.t = "boolean" /\ conditionResult.v
    \/ conditionResult.t = "number" /\ conditionResult.v # 0

queryVarName(stmt) == IF stmt.subject.isWildcard THEN "_" ELSE stmt.subject.variableName

\* one round of the loop: bind, evaluate, keep or drop; an error drops
whereResult(I, stmt, node) ==
    evaluateExpression([I EXCEPT !.context = Put(@, queryVarName(stmt), NodeRef(node))],
                       stmt.whereCondition[1])

filterByWhereCondition(I, matching, stmt) ==
    LET Keep(node) == whereKeeps(whereResult(I, stmt, node))
    IN  SelectSeq(matching, Keep)

\* the context once the loop is over: every round ends by deleting the variable
contextAfterWhere(I, matching, stmt) ==
    IF Len(matching) = 0 THEN I.context ELSE Delete(I.context, queryVarName(stmt))

RECURSIVE outputNodes(_, _, _)
outputNodes(I, matching, i) ==
    IF i > Len(matching) THEN I
    ELSE outputNodes(onOutput(I, "  - " \o matching[i]), matching, i + 1)

\* the result node ?varName: a QueryResult whose _Items are the matches
storeResult(I, varName, matchingNodes) ==
    setProperty(addParent(getOrCreateNode(getOrCreateNode(I, varName), "QueryResult"),
                          varName, "QueryResult"),
                varName, "_Items", NodeList(matchingNodes))

\* the second half of executeQuery: store the result and print it
reportQuery(I, stmt, matchingNodes) ==
    IF ~stmt.subject.isWildcard
    THEN outputNodes(onOutput(storeResult(I, stmt.subject.variableName, matchingNodes),
                              "Query ?" \o stmt.subject.variableName \o ": "
                                  \o ToString(Len(matchingNodes)) \o " nodes found"),
                     matchingNodes, 1)
    ELSE outputNodes(onOutput(I, "Query: " \o ToString(Len(matchingNodes)) \o " nodes found"),
                     matchingNodes, 1)

\* the first half of executeQuery, found the result of findMatchingNodes
filterFound(I, stmt, found) ==
    IF IsThrown(found) THEN Throw(I, found.v)
    ELSE IF Len(stmt.whereCondition) > 0
    THEN reportQuery([I EXCEPT !.context = contextAfterWhere(I, found.v, stmt)], stmt,
                     filterByWhereCondition(I, found.v, stmt))
    ELSE reportQuery(I, stmt, found.v)

executeQuery(I, stmt) == filterFound(I, stmt, findMatchingNodes(I, stmt))

(***************************************************************************)
(* Statements that execute statements                                      *)
(***************************************************************************)
RECURSIVE execute(_, _, _), executeFrom(_, _, _, _), executeStatement(_, _, _)
RECURSIVE executeWhenExpression(_, _, _), executeEachFrom(_, _, _, _, _)

\* context.set(roles[i], getOrCreateNode(argName)) for i = 1 .. , 0-based as in the source
RECURSIVE bindRoles(_, _, _, _)
bindRoles(I, roles, arguments, i) ==
    IF ~(i < Len(roles) /\ i <= Len(arguments)) THEN I
    ELSE LET argName == String(arguments[i])
         IN  IF argName # ""
             THEN bindRoles([getOrCreateNode(I, argName) EXCEPT !.context = Put(@, roles[i + 1], NodeRef(argName))],
                            roles, arguments, i + 1)
             ELSE bindRoles(I, roles, arguments, i + 1)

RECURSIVE deleteAll(_, _, _)
deleteAll(ctx, names, i) == IF i > Len(names) THEN ctx ELSE deleteAll(Delete(ctx, names[i]), names, i + 1)

\* the roles array after the body ran: the body may have pushed to the same array
rolesNow(I, holder, roles) ==
    IF Has(I.properties[holder], "_Roles") /\ I.properties[holder]["_Roles"].t = "roles"
    THEN I.properties[holder]["_Roles"].v ELSE roles

\* what follows execute(doBody) in executeCustomRelation
unbindRoles(I, holder, roles) ==
    IF Failed(I) THEN I
    ELSE [I EXCEPT !.context = deleteAll(@, rolesNow(I, holder, roles), 1)]

unbindRolesFinally(I, holder, roles) ==
    [I EXCEPT !.context = deleteAll(@, rolesNow(I, holder, roles), 1)]

\* this.execute(doBody): a value that is no statement list cannot be iterated, and
\* a relation that keeps invoking itself exhausts the call stack
executeBody(I, doBody, fuel) ==
    IF doBody.t # "body" THEN Throw(I, "TypeError")
    ELSE IF fuel = 0 THEN Throw(I, RangeError)
    ELSE execute(I, doBody.v, fuel - 1)

executeCustomRelation(I, subject, stmt, fuel) ==
    LET relationNode == getNode(I, stmt.relation)
        objName == String(stmt.arguments[1])
        tag == is(I, relationNode, "RELATION")
        doBody == getProperty(I, relationNode, "_DoBody")
        found == lookupFrom(I, relationNode, "_Roles", {})
        roles == found.value
        bound == bindRoles([I EXCEPT !.context = Put(@, roles.v[1], NodeRef(subject))],
                           roles.v, stmt.arguments, 1)
    IN  IF relationNode = NoNode
        THEN IF Len(stmt.arguments) > 0
             THEN setProperty(getOrCreateNode(I, objName), subject, "_" \o stmt.relation, Str(objName))
             ELSE I
        ELSE IF tag = RangeError THEN Throw(I, RangeError)
        ELSE IF tag = "false" THEN Throw(I, "InterpreterError")
        ELSE IF IsThrown(doBody) THEN Throw(I, doBody.v)
        ELSE IF doBody = Null THEN I
        ELSE IF IsThrown(roles) THEN Throw(I, roles.v)
        ELSE IF roles # Null /\ roles.t = "roles" /\ Len(roles.v) > 0
        THEN unbindRoles(executeBody(bound, doBody, fuel), found.holder, roles.v)
        ELSE executeBody(I, doBody, fuel)

executeRelation(I, stmt, fuel) ==
    LET I1 == resolveNode(I, stmt.subject)
        subject == resolved(I, stmt.subject)
        relation == toUpperCase(Codes[stmt.relation])
    IN  CASE relation = Codes["IS"] -> executeIs(I1, subject, stmt)
          [] relation = Codes["HAS"] -> executeHas(I1, subject, stmt)
          [] relation = Codes["PRINT"] -> executePrint(I1, subject)
          [] OTHER -> executeCustomRelation(I1, subject, stmt, fuel)

\* a restore that an exception would skip
restoreWhenUnlessFailed(I, previousWhenSubject, subjectNode, subject) ==
    IF Failed(I) THEN I
    ELSE [I EXCEPT !.whenSubject = previousWhenSubject,
                   !.context = IF subjectNode # NoNode THEN Delete(@, subject) ELSE @]

\* the finally block of executeWhenExpression
restoreWhen(I, previousWhenSubject, subjectNode, subject) ==
    [I EXCEPT !.whenSubject = previousWhenSubject,
              !.context = IF subjectNode # NoNode THEN Delete(@, subject) ELSE @]

\* the branch the evaluated condition selects
whenBranch(I, stmt, result, fuel) ==
    IF IsThrown(result) THEN Throw(I, result.v)
    ELSE IF isTruthy(result) THEN execute(I, stmt.body, fuel)
    ELSE IF Len(stmt.elseWhen) > 0 THEN executeWhenExpression(I, stmt.elseWhen[1], fuel)
    ELSE IF Len(stmt.elseBody) > 0 THEN execute(I, stmt.elseBody[1], fuel)
    ELSE I

\* the try block: the condition, then the branch
whenTry(I, stmt, fuel) ==
    whenBranch(afterEvaluating(I, stmt.condition), stmt, evaluateExpression(I, stmt.condition), fuel)

\* the interpreter the try block starts from: subject bound, whenSubject set
whenEnter(I, subjectNode, subject) ==
    [I EXCEPT !.context = IF subjectNode # NoNode THEN Put(@, subject, NodeRef(subjectNode)) ELSE @,
              !.whenSubject = subjectNode]

executeWhenExpression(I, stmt, fuel) ==
    restoreWhen(whenTry(whenEnter(I, getNode(I, stmt.subject), stmt.subject), stmt, fuel),
                I.whenSubject, getNode(I, stmt.subject), stmt.subject)

\* after the body ran for child i: an exception leaves the loop, the variable still bound
executeEachNext(I, stmt, children, i, fuel) ==
    IF Failed(I) THEN I
    ELSE executeEachFrom([I EXCEPT !.context = Delete(@, stmt.variable)], stmt, children, i + 1, fuel)

executeEachFrom(I, stmt, children, i, fuel) ==
    IF i > Len(children) THEN I
    ELSE executeEachNext(execute([I EXCEPT !.context = Put(@, stmt.variable, NodeRef(children[i]))],
                                 stmt.body, fuel),
                         stmt, children, i, fuel)

executeEach(I, stmt, fuel) ==
    LET collectionNode == getNode(I, stmt.collection)
        IsChild(n) == Includes(I.parents[n], collectionNode)
        children == SelectSeq(allNodes(I), IsChild)
    IN  IF collectionNode = NoNode THEN Throw(I, "InterpreterError")
        ELSE executeEachFrom(I, stmt, children, 1, fuel)

\* a branch test that also runs the body on an equal roll
chanceBranchOnEqual(I, stmt, roll, percent, fuel) ==
    IF compare(roll, percent).v <= 0 THEN execute(I, stmt.body, fuel)
    ELSE IF Len(stmt.elseBody) > 0 THEN execute(I, stmt.elseBody[1], fuel)
    ELSE I

\* the branch of executeChance for a roll and a percent
chanceBranch(I, stmt, roll, percent, fuel) ==
    IF compare(roll, percent).v < 0 THEN execute(I, stmt.body, fuel)
    ELSE IF Len(stmt.elseBody) > 0 THEN execute(I, stmt.elseBody[1], fuel)
    ELSE I

\* executeChance once the percent expression is evaluated: the conversion,
\* the roll, the branch
chanceRoll(I, stmt, percentValue, fuel) ==
    IF IsThrown(percentValue) THEN Throw(I, percentValue.v)
    ELSE IF IsThrown(toNumber(percentValue)) THEN Throw(I, toNumber(percentValue).v)
    ELSE chanceBranch(Consumed(I, 1), stmt, floor(times(random(I), Num(100))),
                      toNumber(percentValue), fuel)

executeChance(I, stmt, fuel) ==
    chanceRoll(afterEvaluating(I, stmt.percent), stmt, evaluateExpression(I, stmt.percent), fuel)

\* a list evaluated again: only the items that still have a parent
getQueryResultsLive(I, variableName) ==
    LET resultNode == getNode(I, variableName)
        items == getProperty(I, resultNode, "_Items")
        Live(n) == I.parents[n] # <<>>
    IN  IF resultNode = NoNode THEN NodeList(<<>>)
        ELSE IF items = Null THEN NodeList(<<>>)
        ELSE NodeList(SelectSeq(items.v, Live))

\* the list `_Items` of the QueryResult node of that name, [] without one
getQueryResults(I, variableName) ==
    LET resultNode == getNode(I, variableName)
        tag == is(I, resultNode, "QueryResult")
        items == getProperty(I, resultNode, "_Items")
    IN  IF resultNode = NoNode THEN NodeList(<<>>)
        ELSE IF tag = RangeError THEN Thrown(RangeError)
        ELSE IF tag = "false" THEN NodeList(<<>>)
        ELSE IF items = Null THEN NodeList(<<>>)
        ELSE items

\* allNodes.filter((n) => n.is(typeName)): a test that throws ends the filter
nodesThatAre(I, typeName) ==
    LET Is(n) == is(I, n, typeName) = "true"
    IN  IF \E i \in 1..Len(I.nodes) : is(I, I.nodes[i], typeName) = RangeError
        THEN Thrown(RangeError)
        ELSE NodeList(SelectSeq(I.nodes, Is))

executeActionOnNode(I, node, action, fuel) ==
    IF action.kind = "relation"
    THEN executeRelation(I, [kind |-> "relation", subject |-> node, relation |-> action.relation,
                             arguments |-> action.arguments],
                         fuel)
    ELSE I

RECURSIVE executeActionFrom(_, _, _, _, _)
\* the loop of executeAll over the matching nodes
executeActionFrom(I, matchingNodes, action, i, fuel) ==
    IF i > Len(matchingNodes) \/ Failed(I) THEN I
    ELSE executeActionFrom(executeActionOnNode(I, matchingNodes[i], action, fuel),
                           matchingNodes, action, i + 1, fuel)

\* executeAll once the matching nodes are known
executeAllOn(I, stmt, matchingNodes, fuel) ==
    IF IsThrown(matchingNodes) THEN Throw(I, matchingNodes.v)
    ELSE IF Len(stmt.queryVariable) > 0 /\ Len(matchingNodes.v) = 0
    THEN onOutput(I, "ALL ?" \o stmt.queryVariable[1] \o ": No query results found (run query first)")
    ELSE IF Len(stmt.action) = 0
    THEN onOutput(I, "ALL " \o (IF Len(stmt.queryVariable) > 0 THEN "?" \o stmt.queryVariable[1]
                                ELSE stmt.typeName)
                     \o ": " \o ToString(Len(matchingNodes.v)) \o " nodes found")
    ELSE executeActionFrom(I, matchingNodes.v, stmt.action[1], 1, fuel)

executeAll(I, stmt, fuel) ==
    executeAllOn(I, stmt,
                 IF Len(stmt.queryVariable) > 0 THEN getQueryResults(I, stmt.queryVariable[1])
                 ELSE nodesThatAre(I, stmt.typeName),
                 fuel)

\* rel.arguments[i] of the condition, `undefined` read as null
conditionArgument(rel, i) == IF Len(rel.arguments) >= i THEN rel.arguments[i] ELSE Null

evaluateHasCondition(I, node, rel) ==
    LET propName == conditionArgument(rel, 1)
        propValue == getProperty(I, node, String(propName))
        relValue == conditionArgument(rel, 2)
    IN  IF propName = Null THEN "false"
        ELSE IF IsThrown(propValue) THEN propValue.v
        ELSE IF relValue = Null THEN (IF propValue # Null THEN "true" ELSE "false")
        ELSE IF propValue = Null THEN "false"
        ELSE IF relValue.t = "number" /\ propValue.t = "number"
        THEN (IF compare(Number(Abs(minus(relValue, propValue).v),
                                denominator(minus(relValue, propValue))),
                         Number(1, 10000)) = Num(-1)
              THEN "true" ELSE "false")
        ELSE IF relValue = propValue THEN "true" ELSE "false"

\* "true", "false", or the error the test ends in
evaluateCondition(I, condition) ==
    LET node == getNode(I, condition.subject)
        relation == Text(toUpperCase(Codes[condition.relation]))
        named == IF Len(condition.arguments) = 0 THEN "undefined" ELSE String(condition.arguments[1])
    IN  IF condition.kind # "relation" THEN "false"
        ELSE IF node = NoNode THEN "false"
        ELSE IF relation = "HAS" THEN evaluateHasCondition(I, node, condition)
        ELSE IF relation = "IS"
        THEN (IF conditionArgument(condition, 1) = Null /\ Len(condition.arguments) > 0 THEN "false"
              ELSE is(I, node, named))
        ELSE IF relation = "CAN"
        THEN (IF conditionArgument(condition, 1) = Null /\ Len(condition.arguments) > 0 THEN "false"
              ELSE nodeCan(I, node, named))
        ELSE "false"

\* executeWhen once the condition is evaluated
whenBody(I, stmt, held, fuel) ==
    IF held = "true" THEN execute(I, stmt.body, fuel)
    ELSE IF held = "false" THEN I
    ELSE Throw(I, held)

executeWhen(I, stmt, fuel) == whenBody(I, stmt, evaluateCondition(I, stmt.condition), fuel)

executeStatement(I, stmt, fuel) ==
    CASE stmt.kind = "relation" -> executeRelation(I, stmt, fuel)
      [] stmt.kind = "when" -> executeWhen(I, stmt, fuel)
      [] stmt.kind = "all" -> executeAll(I, stmt, fuel)
      [] stmt.kind = "hasExpression" -> executeHasExpression(I, stmt)
      [] stmt.kind = "roleDefinition" -> executeRoleDefinition(I, stmt)
      [] stmt.kind = "doBlock" -> executeDoBlock(I, stmt)
      [] stmt.kind = "can" -> executeCan(I, stmt)
      [] stmt.kind = "loses" -> executeLoses(I, stmt)
      [] stmt.kind = "whenExpression" -> executeWhenExpression(I, stmt, fuel)
      [] stmt.kind = "each" -> executeEach(I, stmt, fuel)
      [] stmt.kind = "query" -> executeQuery(I, stmt)
      [] stmt.kind = "expressionPrint" -> executeExpressionPrint(I, stmt)
      [] stmt.kind = "chance" -> executeChance(I, stmt, fuel)

\* a loop that goes on to the next statement after a failure
RECURSIVE executeFromRegardless(_, _, _, _)
executeFromRegardless(I, statements, i, fuel) ==
    IF i > Len(statements) THEN I
    ELSE executeFromRegardless(executeStatement(I, statements[i], fuel), statements, i + 1, fuel)

executeFrom(I, statements, i, fuel) ==
    IF i > Len(statements) \/ Failed(I) THEN I
    ELSE executeFrom(executeStatement(I, statements[i], fuel), statements, i + 1, fuel)

execute(I, statements, fuel) == executeFrom(I, statements, 1, fuel)

(***************************************************************************)
(* The interpreter as a state machine: one step is one call of             *)
(* Interpreter.execute by the host, on the interpreter the earlier calls   *)
(* left behind.  `last` is the statement list of the latest call and       *)
(* `steps` counts the calls.                                               *)
(***************************************************************************)
Current ==
    [nodes |-> nodes, parents |-> parents, properties |-> properties, context |-> context,
     whenSubject |-> whenSubject, output |-> output, error |-> error, draws |-> <<>>]

\* new Interpreter()
Fresh ==
    [nodes |-> <<>>, parents |-> EmptyMap, properties |-> EmptyMap, context |-> EmptyMap,
     whenSubject |-> NoNode, output |-> <<>>, error |-> "none", draws |-> <<>>]

\* the interpreter as the next call of execute finds it
Entering(I) == [I EXCEPT !.output = <<>>, !.error = "none"]

After(I, statements) == execute(Entering(I), statements, MaxDepth)

\* the state the console's store is created with, and reset to
InitialState ==
    [graphData |-> [nodes |-> <<>>, edges |-> <<>>], output |-> <<>>, history |-> <<>>,
     historyIndex |-> -1]

Init ==
    /\ store = InitialState
    /\ returned = <<>>
    /\ nodes = Fresh.nodes
    /\ parents = Fresh.parents
    /\ properties = Fresh.properties
    /\ context = Fresh.context
    /\ whenSubject = Fresh.whenSubject
    /\ output = Fresh.output
    /\ error = Fresh.error
    /\ last = <<>>
    /\ steps = 0
    /\ drawn = <<>>

\* the interpreter's fields become those of I
Becomes(I) ==
    /\ nodes' = I.nodes
    /\ parents' = I.parents
    /\ properties' = I.properties
    /\ context' = I.context
    /\ whenSubject' = I.whenSubject
    /\ output' = I.output
    /\ error' = I.error

\* interpreter.execute(statements)
Run(statements) ==
    /\ Becomes(After(Current, statements))
    /\ last' = statements
    /\ steps' = steps + 1
    /\ drawn' = <<>>
    /\ UNCHANGED <<store, returned>>

\* the interpreter when the coming calls of Math.random return d[1], d[2], ...
Drawing(I, d) == [I EXCEPT !.draws = d]

\* interpreter.execute(statements) while Math.random returns the numbers of d
RunDrawing(d, statements) ==
    /\ Becomes(After(Drawing(Current, d), statements))
    /\ last' = statements
    /\ steps' = steps + 1
    /\ drawn' = d
    /\ UNCHANGED <<store, returned>>

(***************************************************************************)
(* Statement constructors (Statement.ts, Expression.ts)                    *)
(***************************************************************************)
createRelationStmt(subject, relation, arguments) ==
    [kind |-> "relation", subject |-> subject, relation |-> relation, arguments |-> arguments]
createLosesStmt(subject, target, type) ==
    [kind |-> "loses", subject |-> subject, target |-> target, type |-> type]
createQueryStmt(subject, relation, target, targetValue, whereCondition) ==
    [kind |-> "query", subject |-> subject, relation |-> relation, target |-> target,
     targetValue |-> targetValue, whereCondition |-> whereCondition]
createWildcardPattern == [isWildcard |-> TRUE, variableName |-> ""]
createVariablePattern(name) == [isWildcard |-> FALSE, variableName |-> name]
createRoleDefinitionStmt(subject, roleName) ==
    [kind |-> "roleDefinition", subject |-> subject, roleName |-> roleName]
createDoBlockStmt(subject, body) == [kind |-> "doBlock", subject |-> subject, body |-> body]
createExpressionPrintStmt(subject) == [kind |-> "expressionPrint", subject |-> subject]
createWhenExpressionStmt(subject, condition, body, elseBody, elseWhen) ==
    [kind |-> "whenExpression", subject |-> subject, condition |-> condition, body |-> body,
     elseBody |-> elseBody, elseWhen |-> elseWhen]
createAllStmt(typeName, queryVariable, action) ==
    [kind |-> "all", typeName |-> typeName, queryVariable |-> queryVariable, action |-> action]
createEachStmt(collection, variable, body) ==
    [kind |-> "each", collection |-> collection, variable |-> variable, body |-> body]
createChanceStmt(percent, body, elseBody) ==
    [kind |-> "chance", percent |-> percent, body |-> body, elseBody |-> elseBody]
createRandomExpr(min, max) == [kind |-> "random", min |-> min, max |-> max]
createNumberExpr(value) == [kind |-> "number", value |-> value]
createStringExpr(value) == [kind |-> "string", value |-> value]
createUnaryExpr(operator, operand) == [kind |-> "unary", operator |-> operator, operand |-> operand]
createGroupingExpr(inner) == [kind |-> "grouping", inner |-> inner]
createIdentifierExpr(name) == [kind |-> "identifier", name |-> name]
createPropertyAccessExpr(object, property) ==
    [kind |-> "propertyAccess", object |-> object, property |-> property]
createBinaryExpr(left, operator, right) ==
    [kind |-> "binary", left |-> left, operator |-> operator, right |-> right]

IsStmt(S, T) == createRelationStmt(S, "IS", <<Str(T)>>)
LosesIsStmt(S, T) == createLosesStmt(S, T, "Is")

(***************************************************************************)
(* SpecGraph: programs of IS and LOSES IS statements over three names, and *)
(* the wildcard query `? IS T`.                                            *)
(***************************************************************************)
GraphNames == {"A", "B", "C"}

Is(S, T) ==
    /\ steps < MaxSteps
    /\ Run(<<IsStmt(S, T)>>)

LosesIs(S, T) ==
    /\ steps < MaxSteps
    /\ Run(<<LosesIsStmt(S, T)>>)

IsThenLosesIs(S, T) ==
    /\ steps < MaxSteps
    /\ Run(<<IsStmt(S, T), LosesIsStmt(S, T)>>)

QueryIs(T) ==
    /\ steps < MaxSteps
    /\ Run(<<createQueryStmt(createWildcardPattern, "IS", <<T>>, Null, <<>>)>>)

NextGraph ==
    \/ \E S \in GraphNames, T \in GraphNames : Is(S, T)
    \/ \E S \in GraphNames, T \in GraphNames : LosesIs(S, T)
    \/ \E S \in GraphNames, T \in GraphNames : IsThenLosesIs(S, T)
    \/ \E T \in GraphNames : QueryIs(T)

SpecGraph == Init /\ [][NextGraph]_vars

\* the parents list of a name, empty while no node has it
parentsOf(I, S) == IF Has(I.parents, S) THEN I.parents[S] ELSE <<>>

\* q without its elements equal to x
Without(q, x) == LET Other(y) == y # x IN SelectSeq(q, Other)

NoDuplicates(q) == \A i, j \in 1..Len(q) : q[i] = q[j] => i = j

\* the nodes a walk of at least one parent edge reaches from n
RECURSIVE ReachedFrom(_, _, _)
ReachedFrom(I, S, k) ==
    IF k = 0 THEN S
    ELSE ReachedFrom(I, S \cup UNION {{I.parents[m][i] : i \in 1..Len(I.parents[m])} : m \in S}, k - 1)
Ancestors(I, n) ==
    ReachedFrom(I, {I.parents[n][i] : i \in 1..Len(I.parents[n])}, Cardinality(DOMAIN I.parents))
Acyclic(I) == \A n \in DOMAIN I.parents : n \notin Ancestors(I, n)

\* C4: in every graph built by IS statements, self-IS and mutual IS included,
\* node.is(typeName) and node.getProperty(name) terminate for every node,
\* every type name and every property name, also names that match nothing.
C4_LookupsTerminate ==
    \A n \in DOMAIN parents : \A name \in GraphNames \cup {"Q"} :
        /\ is(Current, n, name) # RangeError
        /\ ~IsThrown(getProperty(Current, n, name))

\* C5 as stated: `S IS T` then `S LOSES IS T` leaves the parents list of S
\* as it was before the two statements, for every S, every T, every state.
C5_IsThenLosesRestores ==
    \A S \in GraphNames, T \in GraphNames :
        parentsOf(After(Current, <<IsStmt(S, T), LosesIsStmt(S, T)>>), S) = parentsOf(Current, S)

\* C5 amended: `S IS T` then `S LOSES IS T` leaves the parents list of S as
\* it was before the two statements whenever T was not already a parent of S.
C5_IsThenLosesRestoresNewParent ==
    \A S \in GraphNames, T \in GraphNames :
        ~Includes(parentsOf(Current, S), T) =>
            parentsOf(After(Current, <<IsStmt(S, T), LosesIsStmt(S, T)>>), S) = parentsOf(Current, S)

\* a node with a parent, for which IS of a new parent appends it and LOSES IS takes it off again
C5_Witness ==
    \E S \in DOMAIN parents, T \in GraphNames :
        /\ Len(parents[S]) > 0
        /\ ~Includes(parents[S], T)
        /\ parentsOf(After(Current, <<IsStmt(S, T)>>), S) = Append(parents[S], T)
        /\ parentsOf(After(Current, <<IsStmt(S, T), LosesIsStmt(S, T)>>), S) = parents[S]

\* C6: no parents list holds a node twice; `S IS T` appends T at the end when
\* T is no parent of S yet and changes nothing otherwise, `S LOSES IS T` keeps
\* the other parents in their order, and `S IS T` executed a second time
\* leaves the parents list as the first execution left it.
C6_ParentsOrderedNoDuplicates ==
    /\ \A n \in DOMAIN parents : NoDuplicates(parents[n])
    /\ \A S \in GraphNames, T \in GraphNames :
        /\ parentsOf(After(Current, <<IsStmt(S, T)>>), S) =
               IF Includes(parentsOf(Current, S), T) THEN parentsOf(Current, S)
               ELSE Append(parentsOf(Current, S), T)
        /\ parentsOf(After(Current, <<LosesIsStmt(S, T)>>), S) = Without(parentsOf(Current, S), T)
        /\ parentsOf(After(Current, <<IsStmt(S, T), IsStmt(S, T)>>), S) =
               parentsOf(After(Current, <<IsStmt(S, T)>>), S)
        /\ parentsOf(After(After(Current, <<IsStmt(S, T)>>), <<IsStmt(S, T)>>), S) =
               parentsOf(After(Current, <<IsStmt(S, T)>>), S)

\* `S IS T` was just executed on a node that already had T as the first of its two parents
C6_Witness ==
    \E S \in DOMAIN parents, T \in GraphNames :
        /\ last = <<IsStmt(S, T)>>
        /\ Len(parents[S]) = 2
        /\ parents[S][1] = T

\* C7: n.is(n.name) is true for every node; right after `n IS p`, n.is(p.name)
\* is true; and in an acyclic graph a.is(b.name) and b.is(c.name) give a.is(c.name).
C7_IsReflexiveTransitive ==
    /\ \A n \in DOMAIN parents : is(Current, n, n) = "true"
    /\ \A n \in GraphNames, p \in GraphNames : is(After(Current, <<IsStmt(n, p)>>), n, p) = "true"
    /\ Acyclic(Current) =>
           \A a \in DOMAIN parents, b \in DOMAIN parents, c \in DOMAIN parents :
               is(Current, a, b) = "true" /\ is(Current, b, c) = "true" => is(Current, a, c) = "true"

(***************************************************************************)
(* SpecHas: programs of relation-form HAS and of LOSES over two subjects,  *)
(* with values that name a subject, name nothing, or are a number.         *)
(***************************************************************************)
HasSubjects == {"A", "V"}
HasProps == {"P", "Q"}
HasValueNames == {"A", "V", "W"}

HasStmt(S, prop, value) == createRelationStmt(S, "HAS", <<Str(prop), value>>)

HasName(S, prop, V) ==
    /\ steps < MaxSteps
    /\ Run(<<HasStmt(S, prop, Str(V))>>)

HasNumber(S, prop) ==
    /\ steps < MaxSteps
    /\ Run(<<HasStmt(S, prop, Num(5))>>)

HasNothing(S, prop) ==
    /\ steps < MaxSteps
    /\ Run(<<createRelationStmt(S, "HAS", <<Str(prop)>>)>>)

LosesHas(S, prop) ==
    /\ steps < MaxSteps
    /\ Run(<<createLosesStmt(S, prop, "Auto")>>)

NextHas ==
    \/ \E S \in HasSubjects, prop \in HasProps, V \in HasValueNames : HasName(S, prop, V)
    \/ \E S \in HasSubjects, prop \in HasProps : HasNumber(S, prop)
    \/ \E S \in HasSubjects, prop \in HasProps : HasNothing(S, prop)
    \/ \E S \in HasSubjects, prop \in HasProps : LosesHas(S, prop)

SpecHas == Init /\ [][NextHas]_vars

\* C8 as stated: `P HAS prop V` stores a reference to the node named V if the
\* graph the statement starts from has one; otherwise it stores the string V
\* and the graph has no node named V afterwards.
C8_HasPromotesExistingNode ==
    \A P \in HasSubjects, prop \in HasProps, V \in HasValueNames \cup HasSubjects :
        LET I == After(Current, <<HasStmt(P, prop, Str(V))>>)
        IN  IF getNode(Current, V) # NoNode
            THEN I.properties[P][prop] = NodeRef(V)
            ELSE I.properties[P][prop] = Str(V) /\ getNode(I, V) = NoNode

\* C8 amended: `P HAS prop V` stores a reference to the node named V if the
\* graph has one once the subject P is resolved (so also when V is P itself,
\* created by this statement); otherwise it stores the string V and the graph
\* has no node named V afterwards.
C8_HasPromotesNodeAfterSubject ==
    \A P \in HasSubjects, prop \in HasProps, V \in HasValueNames \cup HasSubjects :
        LET I == After(Current, <<HasStmt(P, prop, Str(V))>>)
        IN  IF getNode(resolveNode(Current, P), V) # NoNode
            THEN I.properties[P][prop] = NodeRef(V)
            ELSE I.properties[P][prop] = Str(V) /\ getNode(I, V) = NoNode

\* a HAS with the name of no node was just executed and stored the string,
\* in a graph where an earlier HAS stored a reference to another node
C8_Witness ==
    \E P \in DOMAIN properties, prop \in HasProps, V \in HasValueNames :
        /\ last = <<HasStmt(P, prop, Str(V))>>
        /\ getNode(Current, V) = NoNode
        /\ properties[P][prop] = Str(V)
        /\ \E S \in DOMAIN properties : \E p \in DOMAIN properties[S] :
               properties[S][p].t = "node" /\ properties[S][p].v # S

(***************************************************************************)
(* SpecRelation: the custom relation Hit is declared (the RELATION tag,    *)
(* its roles, its body), given further roles or another body, and invoked. *)
(* One body completes, one throws NodeNotFound, one invokes Hit again      *)
(* without end.                                                            *)
(***************************************************************************)
RoleNames == {"self", "other"}
RoleLists == {<<>>, <<"self">>, <<"self", "other">>}
RelationSubjects == {"A", "B"}
\* self HAS P 5
CompletingBody == <<createRelationStmt("self", "HAS", <<Str("P"), Num(5)>>)>>
\* (Nope) PRINT
ThrowingBody == <<createExpressionPrintStmt(createIdentifierExpr("Nope"))>>
\* self Hit B
RecursiveBody == <<createRelationStmt("self", "Hit", <<Str("B")>>)>>
Bodies == {CompletingBody, ThrowingBody, RecursiveBody}

InvokeStmt(S, T) == createRelationStmt(S, "Hit", <<Str(T)>>)

\* Hit IS RELATION, Hit HAS <role> (Node) for each role, Hit DO <body> END
DeclarationOf(roles, body) ==
    <<IsStmt("Hit", "RELATION")>>
        \o [i \in 1..Len(roles) |-> createRoleDefinitionStmt("Hit", roles[i])]
        \o <<createDoBlockStmt("Hit", body)>>

DeclareRelation(roles, body) ==
    /\ steps < MaxSteps
    /\ Run(DeclarationOf(roles, body))

DeclareRole(role) ==
    /\ steps < MaxSteps
    /\ Run(<<createRoleDefinitionStmt("Hit", role)>>)

DeclareBody(body) ==
    /\ steps < MaxSteps
    /\ Run(<<createDoBlockStmt("Hit", body)>>)

Invoke(S, T) ==
    /\ steps < MaxSteps
    /\ Run(<<InvokeStmt(S, T)>>)

NextRelation ==
    \/ \E roles \in RoleLists, body \in Bodies : DeclareRelation(roles, body)
    \/ \E role \in RoleNames : DeclareRole(role)
    \/ \E body \in Bodies : DeclareBody(body)
    \/ \E S \in RelationSubjects, T \in RelationSubjects : Invoke(S, T)

SpecRelation == Init /\ [][NextRelation]_vars

\* an invocation of R reaches this.execute(doBody)
BodyRuns(I, R) ==
    /\ getNode(I, R) # NoNode
    /\ is(I, R, "RELATION") = "true"
    /\ getProperty(I, R, "_DoBody").t = "body"

\* the role names R declares
RolesOf(I, R) ==
    LET roles == getProperty(I, R, "_Roles")
    IN  IF roles.t = "roles" THEN {roles.v[i] : i \in 1..Len(roles.v)} ELSE {}

\* C2: after an invocation of a custom relation whose body was executed, be it
\* to completion or to an error that propagated, no role name the relation
\* declares in _Roles is bound in the context.
C2_RolesUnboundAfterInvocation ==
    \A S \in RelationSubjects, T \in RelationSubjects :
        BodyRuns(Current, "Hit") =>
            \A role \in RolesOf(After(Current, <<InvokeStmt(S, T)>>), "Hit") :
                ~Has(After(Current, <<InvokeStmt(S, T)>>).context, role)

(***************************************************************************)
(* SpecWhen: WHEN expressions at the top level and in the body of an EACH  *)
(* loop, over nodes that IS and HAS statements create.  A condition is     *)
(* true, false, or an identifier that resolves through the WHEN subject    *)
(* or throws NodeNotFound; a body completes or throws.                     *)
(***************************************************************************)
WhenNodes == {"A", "B"}
\* A names a node once created; x names none and is the variable of the loop
WhenSubjects == {"A", "x"}
Conditions == {createNumberExpr(1), createNumberExpr(0), createIdentifierExpr("HP")}
\* A HAS P 5
WhenBody == <<createRelationStmt("A", "HAS", <<Str("P"), Num(5)>>)>>
WhenBodies == {WhenBody, ThrowingBody}

WhenStmt(subject, condition, body) == createWhenExpressionStmt(subject, condition, body, <<>>, <<>>)

WIs(S) ==
    /\ steps < MaxSteps
    /\ Run(<<IsStmt(S, "M")>>)

WHas(S) ==
    /\ steps < MaxSteps
    /\ Run(<<HasStmt(S, "HP", Num(5))>>)

When(subject, condition, body) ==
    /\ steps < MaxSteps
    /\ Run(<<WhenStmt(subject, condition, body)>>)

EachWhen(condition, body) ==
    /\ steps < MaxSteps
    /\ Run(<<createEachStmt("M", "x", <<WhenStmt("x", condition, body)>>)>>)

NextWhen ==
    \/ \E S \in WhenNodes : WIs(S)
    \/ \E S \in WhenNodes : WHas(S)
    \/ \E subject \in WhenSubjects, condition \in Conditions, body \in WhenBodies :
           When(subject, condition, body)
    \/ \E condition \in Conditions, body \in WhenBodies : EachWhen(condition, body)

SpecWhen == Init /\ [][NextWhen]_vars

\* the WHEN expressions of the claim: with and without ELSE, with and without ELSE WHEN
WhenStmts ==
    {createWhenExpressionStmt(subject, condition, body, elseBody, elseWhen) :
        subject \in WhenSubjects, condition \in Conditions, body \in WhenBodies,
        elseBody \in {<<>>, <<ThrowingBody>>},
        elseWhen \in {<<>>, <<WhenStmt("B", createNumberExpr(1), ThrowingBody)>>}}

\* the interpreter as a WHEN expression can find it: at the top level, in the
\* body of an EACH loop over the children of M, in the body of another WHEN
WhenStarts ==
    {Entering(Current)}
        \cup {[Entering(Current) EXCEPT !.context = Put(@, "x", NodeRef(n))] :
                 n \in {m \in DOMAIN parents : Includes(parents[m], "M")}}
        \cup {[Entering(Current) EXCEPT !.whenSubject = n] : n \in DOMAIN parents}

\* C9 as stated: when a WHEN expression ends, normally or by an error of its
\* condition or of a branch, whenSubject is what it was before and the
\* subject name is not bound in the context; between top-level execute calls
\* whenSubject is null.
C9_WhenRestoresAndUnbinds ==
    /\ whenSubject = NoNode
    /\ \A I \in WhenStarts, stmt \in WhenStmts :
        /\ executeWhenExpression(I, stmt, MaxDepth).whenSubject = I.whenSubject
        /\ ~Has(executeWhenExpression(I, stmt, MaxDepth).context, stmt.subject)

\* C9 amended: when a WHEN expression ends, normally or by an error,
\* whenSubject is what it was before, and the subject name is not bound in
\* the context if the graph had a node of that name when the statement
\* started; between top-level execute calls whenSubject is null.
C9_WhenRestoresAndUnbindsItsNode ==
    /\ whenSubject = NoNode
    /\ \A I \in WhenStarts, stmt \in WhenStmts :
        /\ executeWhenExpression(I, stmt, MaxDepth).whenSubject = I.whenSubject
        /\ getNode(I, stmt.subject) # NoNode =>
               ~Has(executeWhenExpression(I, stmt, MaxDepth).context, stmt.subject)

\* a WHEN on an existing node has just ended by the error of its body, and
\* whenSubject is null again and the subject unbound
C9_Witness ==
    /\ last = <<WhenStmt("A", createNumberExpr(1), ThrowingBody)>>
    /\ getNode(Current, "A") # NoNode
    /\ error = "NodeNotFound"
    /\ whenSubject = NoNode
    /\ ~Has(context, "A")

(***************************************************************************)
(* SpecQuery: the query `?m IS Monster`, with and without WHERE, over      *)
(* monsters that IS and HAS statements create; the first call may be the   *)
(* three statements of scenario S5.                                        *)
(***************************************************************************)
Monsters == {"Orc", "Goblin"}
HPValues == {0, 5}
\* m.Name, m.HP, m, m.HP > 3
WhereConditions ==
    {createPropertyAccessExpr(createIdentifierExpr("m"), "Name"),
     createPropertyAccessExpr(createIdentifierExpr("m"), "HP"),
     createIdentifierExpr("m"),
     createBinaryExpr(createPropertyAccessExpr(createIdentifierExpr("m"), "HP"), "GreaterThan",
                      createNumberExpr(3))}

QueryVarStmt(T) == createQueryStmt(createVariablePattern("m"), "IS", <<T>>, Null, <<>>)
QueryWhereStmt(T, condition) ==
    createQueryStmt(createVariablePattern("m"), "IS", <<T>>, Null, <<condition>>)

S5Program == <<IsStmt("Orc", "Monster"), IsStmt("Goblin", "Monster"), QueryVarStmt("Monster")>>

Scenario5 ==
    /\ steps = 0
    /\ Run(S5Program)

QIs(S) ==
    /\ steps < MaxSteps
    /\ Run(<<IsStmt(S, "Monster")>>)

QHasName(S) ==
    /\ steps < MaxSteps
    /\ Run(<<HasStmt(S, "Name", Str("Boss"))>>)

QHasHP(S, n) ==
    /\ steps < MaxSteps
    /\ Run(<<HasStmt(S, "HP", Num(n))>>)

QueryVar ==
    /\ steps < MaxSteps
    /\ Run(<<QueryVarStmt("Monster")>>)

QueryWhere(condition) ==
    /\ steps < MaxSteps
    /\ Run(<<QueryWhereStmt("Monster", condition)>>)

NextQuery ==
    \/ Scenario5
    \/ \E S \in Monsters : QIs(S)
    \/ \E S \in Monsters : QHasName(S)
    \/ \E S \in Monsters, n \in HPValues : QHasHP(S, n)
    \/ QueryVar
    \/ \E condition \in WhereConditions : QueryWhere(condition)

SpecQuery == Init /\ [][NextQuery]_vars

\* the nodes a query stored in the _Items of its result node ?m
ItemsOf(I) == I.properties["m"]["_Items"].v

\* the nodes declared `IS T`, in graph insertion order
DeclaredIs(I, T) == LET Declared(n) == Includes(I.parents[n], T) IN SelectSeq(allNodes(I), Declared)

\* C1: on a fresh interpreter `Orc IS Monster`, `Goblin IS Monster`,
\* `?m IS Monster` emit exactly `Query ?m: 2 nodes found`, `  - Orc`,
\* `  - Goblin`; the query `?m IS T` reports exactly the nodes declared
\* `IS T`, in graph insertion order.
C1_QueryReportsDeclaredNodes ==
    /\ last = S5Program /\ steps = 1 =>
           output = <<"Query ?m: 2 nodes found", "  - Orc", "  - Goblin">>
    /\ ItemsOf(After(Current, <<QueryVarStmt("Monster")>>)) = DeclaredIs(Current, "Monster")

\* C10: a query with WHERE keeps a candidate node exactly if the condition,
\* evaluated with the query variable bound to the node, yields a truthy
\* value: not null, false, 0 or the empty string (a non-empty string and a
\* node reference are truthy).
C10_WhereKeepsTruthy ==
    \A condition \in WhereConditions :
        LET stmt == QueryWhereStmt("Monster", condition)
            candidates == findMatchingNodes(Entering(Current), stmt).v
            kept == ItemsOf(After(Current, <<stmt>>))
        IN  \A i \in 1..Len(candidates) :
                Includes(kept, candidates[i]) <=>
                    whereKeepsTruthy(whereResult(Entering(Current), stmt, candidates[i]))

(***************************************************************************)
(* Tokenizer                                                               *)
(*                                                                         *)
(* A source is its sequence of character codes.  The sources of the model  *)
(* are written with letters, digits, `_`, `$`, blanks and newlines, so of  *)
(* scanToken's cases those of the punctuation characters, of `?` and of    *)
(* the string quote are left out.                                          *)
(***************************************************************************)
KEYWORDS ==
    (<<105, 115>> :> "IS") @@ (<<104, 97, 115>> :> "HAS") @@ (<<100, 111>> :> "DO")
    @@ (<<101, 110, 100>> :> "END") @@ (<<112, 114, 105, 110, 116>> :> "PRINT")
    @@ (<<99, 97, 110>> :> "CAN") @@ (<<108, 111, 115, 101, 115>> :> "LOSES")
    @@ (<<114, 101, 108, 97, 116, 105, 111, 110>> :> "RELATION")
    @@ (<<100, 101, 98, 117, 103>> :> "DEBUG") @@ (<<119, 104, 101, 110>> :> "WHEN")
    @@ (<<101, 108, 115, 101>> :> "ELSE") @@ (<<97, 108, 108>> :> "ALL")
    @@ (<<101, 97, 99, 104>> :> "EACH") @@ (<<119, 104, 101, 114, 101>> :> "WHERE")
    @@ (<<111, 102>> :> "OF") @@ (<<114, 97, 110, 100, 111, 109>> :> "RANDOM")
    @@ (<<99, 104, 97, 110, 99, 101>> :> "CHANCE") @@ (<<97, 110, 100>> :> "AND")
    @@ (<<111, 114>> :> "OR") @@ (<<110, 111, 116>> :> "NOT")

\* the token list, or what a parse produced, as a value next to Thrown
Tokens(q) == [t |-> "tokens", v |-> q]
createToken(type, lexeme, value) == [type |-> type, lexeme |-> lexeme, value |-> value]

isDigit(c) == c >= 48 /\ c <= 57
\* an underscore counts as a letter
isAlpha(c) == (c >= 97 /\ c <= 122) \/ (c >= 65 /\ c <= 90) \/ c = 95
isAlphaNumeric(c) == isAlpha(c) \/ isDigit(c)

\* the character at `current` (1-based), '\0' at the end
peek(source, current) == IF current > Len(source) THEN 0 ELSE source[current]

\* the position the while loops of scanNumber and scanIdentifier stop at
RECURSIVE afterDigits(_, _), afterAlphaNumerics(_, _)
afterDigits(source, current) ==
    IF isDigit(peek(source, current)) THEN afterDigits(source, current + 1) ELSE current
afterAlphaNumerics(source, current) ==
    IF isAlphaNumeric(peek(source, current)) THEN afterAlphaNumerics(source, current + 1) ELSE current

\* parseFloat of a run of digits
RECURSIVE parseFloat(_)
parseFloat(digits) ==
    IF Len(digits) = 0 THEN 0
    ELSE 10 * parseFloat(SubSeq(digits, 1, Len(digits) - 1)) + (digits[Len(digits)] - 48)

\* the NUMBER token of source[start .. end - 1]
scanNumber(source, start, end) ==
    createToken("NUMBER", Text(SubSeq(source, start, end - 1)),
                Num(parseFloat(SubSeq(source, start, end - 1))))

\* the keyword or IDENTIFIER token of the text source[start .. end - 1]
scanIdentifier(text) ==
    createToken(IF toLowerCase(text) \in DOMAIN KEYWORDS THEN KEYWORDS[toLowerCase(text)]
                ELSE "IDENTIFIER",
                Text(text), Null)

\* the characters the switch of scanToken has a case for, besides blanks and
\* line ends: { } ( ) , . + - * % / = ! < > ? "   (no source of the model holds one)
Punctuation == {123, 125, 40, 41, 44, 46, 43, 45, 42, 37, 47, 61, 33, 60, 62, 63, 34}

RECURSIVE tokenizeFrom(_, _, _)
\* the loop of tokenize once a token that ends before `current` is added
tokenizeNext(source, current, tokens, token) == tokenizeFrom(source, current, Append(tokens, token))

scanToken(source, start, tokens) ==
    CASE source[start] = 10 -> tokenizeNext(source, start + 1, tokens, createToken("NEWLINE", "\n", Null))
      [] source[start] \in {13, 32, 9} -> tokenizeFrom(source, start + 1, tokens)
      [] isDigit(source[start]) ->
            tokenizeNext(source, afterDigits(source, start + 1), tokens,
                         scanNumber(source, start, afterDigits(source, start + 1)))
      [] isAlpha(source[start]) ->
            tokenizeNext(source, afterAlphaNumerics(source, start + 1), tokens,
                         scanIdentifier(SubSeq(source, start, afterAlphaNumerics(source, start + 1) - 1)))
      [] source[start] \notin Punctuation -> Thrown("TokenizerError")

tokenizeFrom(source, current, tokens) ==
    IF current > Len(source) THEN Tokens(Append(tokens, createToken("EOF", "", Null)))
    ELSE scanToken(source, current, tokens)

tokenize(source) == tokenizeFrom(source, 1, <<>>)

(***************************************************************************)
(* Parser                                                                  *)
(*                                                                         *)
(* `current` is the 1-based position of the next token.  A parse function  *)
(* gives the statement and the position after it, or the ParserError it    *)
(* throws.  The statements that open with IDENTIFIER and go on with IS,    *)
(* HAS, PRINT, CAN, LOSES or a custom relation, the queries and the        *)
(* expressions are parsed here; no token list of the model opens a         *)
(* statement with `(` or IDENTIFIER `.`, or holds DO, EACH, WHEN, ALL,     *)
(* CHANCE, RANDOM or DEBUG.                                                *)
(***************************************************************************)
Parsed(stmt, next) == [t |-> "parsed", stmt |-> stmt, next |-> next]
Statements(q) == [t |-> "statements", v |-> q]
createCanStmt(subject, ability) == [kind |-> "can", subject |-> subject, ability |-> ability]

isAtEnd(tokens, current) == tokens[current].type = "EOF"
check(tokens, current, type) == ~isAtEnd(tokens, current) /\ tokens[current].type = type
checkEndOfStatement(tokens, current) ==
    \/ isAtEnd(tokens, current)
    \/ check(tokens, current, "NEWLINE")
    \/ check(tokens, current, "END")
    \/ check(tokens, current, "WHEN")
checkRelation(tokens, current) ==
    tokens[current].type \in {"IS", "HAS", "DO", "PRINT", "CAN", "LOSES", "EACH", "WHEN", "IDENTIFIER"}

\* the raw value of an argument token: a number, or the text of a name
parseSimpleValue(token) ==
    CASE token.type = "NUMBER" -> token.value
      [] token.type = "STRING" -> token.value
      [] token.type = "IDENTIFIER" -> Str(token.lexeme)
      [] OTHER -> Thrown("ParserError")

parseIs(tokens, subject, current) ==
    IF ~check(tokens, current, "IDENTIFIER") /\ ~check(tokens, current, "RELATION")
    THEN Thrown("ParserError")
    ELSE Parsed(createRelationStmt(subject.lexeme, "IS", <<Str(tokens[current].lexeme)>>), current + 1)

\* parseHas once the property name is read
parseHasValue(tokens, subject, property, current) ==
    IF checkEndOfStatement(tokens, current)
    THEN Parsed(createRelationStmt(subject.lexeme, "HAS", <<Str(property.lexeme)>>), current)
    ELSE IF IsThrown(parseSimpleValue(tokens[current])) THEN parseSimpleValue(tokens[current])
    ELSE Parsed(createRelationStmt(subject.lexeme, "HAS",
                                   <<Str(property.lexeme), parseSimpleValue(tokens[current])>>),
                current + 1)

parseHas(tokens, subject, current) ==
    IF ~check(tokens, current, "IDENTIFIER") THEN Thrown("ParserError")
    ELSE parseHasValue(tokens, subject, tokens[current], current + 1)

parseCan(tokens, subject, current) ==
    IF ~check(tokens, current, "IDENTIFIER") THEN Thrown("ParserError")
    ELSE Parsed(createCanStmt(subject.lexeme, tokens[current].lexeme), current + 1)

parseLoses(tokens, subject, current) ==
    IF check(tokens, current, "IS")
    THEN IF ~check(tokens, current + 1, "IDENTIFIER") THEN Thrown("ParserError")
         ELSE Parsed(createLosesStmt(subject.lexeme, tokens[current + 1].lexeme, "Is"), current + 2)
    ELSE IF ~check(tokens, current, "IDENTIFIER") THEN Thrown("ParserError")
    ELSE Parsed(createLosesStmt(subject.lexeme, tokens[current].lexeme, "Auto"), current + 1)

RECURSIVE collectArguments(_, _, _, _, _)
\* the while loop of parseCustomRelation
collectArguments(tokens, subject, relation, current, args) ==
    IF checkEndOfStatement(tokens, current)
    THEN Parsed(createRelationStmt(subject.lexeme, relation.lexeme, args), current)
    ELSE IF IsThrown(parseSimpleValue(tokens[current])) THEN Thrown("ParserError")
    ELSE collectArguments(tokens, subject, relation, current + 1,
                          Append(args, parseSimpleValue(tokens[current])))

parseCustomRelation(tokens, subject, relation, current) ==
    collectArguments(tokens, subject, relation, current, <<>>)

\* the switch of parseStatement on the token after the subject
parseRelation(tokens, subject, relation, current) ==
    CASE relation.type = "PRINT" ->
            Parsed(createRelationStmt(subject.lexeme, relation.lexeme, <<>>), current)
      [] relation.type = "CAN" -> parseCan(tokens, subject, current)
      [] relation.type = "LOSES" -> parseLoses(tokens, subject, current)
      [] relation.type = "HAS" -> parseHas(tokens, subject, current)
      [] relation.type = "IS" -> parseIs(tokens, subject, current)
      [] relation.type = "IDENTIFIER" -> parseCustomRelation(tokens, subject, relation, current)

getBinaryOperator(type) ==
    CASE type = "PLUS" -> "Add"
      [] type = "MINUS" -> "Subtract"
      [] type = "STAR" -> "Multiply"
      [] type = "SLASH" -> "Divide"
      [] type = "MODULO" -> "Modulo"
      [] type = "EQ" -> "Equal"
      [] type = "NEQ" -> "NotEqual"
      [] type = "LT" -> "LessThan"
      [] type = "GT" -> "GreaterThan"
      [] type = "LTE" -> "LessEqual"
      [] type = "GTE" -> "GreaterEqual"
      [] type = "AND" -> "And"
      [] type = "OR" -> "Or"

\* the token types on which the while loops of parseOr, parseAnd,
\* parseComparison, parseAdditive and parseMultiplicative go on, in this order
BinaryLevels ==
    << {"OR"}, {"AND"}, {"EQ", "NEQ", "LT", "GT", "LTE", "GTE"}, {"PLUS", "MINUS"},
       {"STAR", "SLASH", "MODULO"} >>

RECURSIVE parseBinary(_, _, _), parseBinaryLoop(_, _, _), parseExpression(_, _)
RECURSIVE parseUnary(_, _), parsePostfix(_, _), postfixLoop(_, _), parsePrimary(_, _)

\* expr = createBinaryExpr(expr, op, right), then the loop again
parseBinaryRight(tokens, left, level, right) ==
    IF IsThrown(right) THEN right
    ELSE parseBinaryLoop(tokens,
                         Parsed(createBinaryExpr(left.stmt, getBinaryOperator(tokens[left.next].type),
                                                 right.stmt),
                                right.next),
                         level)

\* the while loop of a level, `left` the expression parsed so far
parseBinaryLoop(tokens, left, level) ==
    IF IsThrown(left) THEN left
    ELSE IF tokens[left.next].type \notin BinaryLevels[level] THEN left
    ELSE parseBinaryRight(tokens, left, level, parseBinary(tokens, left.next + 1, level + 1))

\* the parse function of a level: its operands are of the next level, those
\* of the last level are unary expressions
parseBinary(tokens, current, level) ==
    IF level > Len(BinaryLevels) THEN parseUnary(tokens, current)
    ELSE parseBinaryLoop(tokens, parseBinary(tokens, current, level + 1), level)

parseOr(tokens, current) == parseBinary(tokens, current, 1)
parseAnd(tokens, current) == parseBinary(tokens, current, 2)
parseComparison(tokens, current) == parseBinary(tokens, current, 3)
parseExpression(tokens, current) == parseOr(tokens, current)

unaryOf(operator, operand) ==
    IF IsThrown(operand) THEN operand
    ELSE Parsed(createUnaryExpr(operator, operand.stmt), operand.next)

parseUnary(tokens, current) ==
    IF check(tokens, current, "NOT") THEN unaryOf("Not", parseUnary(tokens, current + 1))
    ELSE IF check(tokens, current, "MINUS") THEN unaryOf("Negate", parseUnary(tokens, current + 1))
    ELSE parsePostfix(tokens, current)

\* HP OF Player: the property of the object parsed after OF
postfixOf(tokens, left, object) ==
    IF IsThrown(object) THEN object
    ELSE postfixLoop(tokens, Parsed(createPropertyAccessExpr(object.stmt, left.stmt.name), object.next))

\* the while loop of parsePostfix
postfixLoop(tokens, left) ==
    IF IsThrown(left) THEN left
    ELSE IF check(tokens, left.next, "DOT")
    THEN IF ~check(tokens, left.next + 1, "IDENTIFIER") THEN Thrown("ParserError")
         ELSE postfixLoop(tokens, Parsed(createPropertyAccessExpr(left.stmt, tokens[left.next + 1].lexeme),
                                         left.next + 2))
    ELSE IF check(tokens, left.next, "OF")
    THEN IF left.stmt.kind # "identifier" THEN Thrown("ParserError")
         ELSE postfixOf(tokens, left, parsePostfix(tokens, left.next + 1))
    ELSE left

parsePostfix(tokens, current) == postfixLoop(tokens, parsePrimary(tokens, current))

\* ( inner ), once inner is parsed
groupingOf(tokens, inner) ==
    IF IsThrown(inner) THEN inner
    ELSE IF ~check(tokens, inner.next, "RPAREN") THEN Thrown("ParserError")
    ELSE Parsed(createGroupingExpr(inner.stmt), inner.next + 1)

\* no token list of the model holds RANDOM
parsePrimary(tokens, current) ==
    CASE check(tokens, current, "NUMBER") ->
            Parsed(createNumberExpr(tokens[current].value.v), current + 1)
      [] check(tokens, current, "STRING") ->
            Parsed(createStringExpr(tokens[current].value.v), current + 1)
      [] check(tokens, current, "IDENTIFIER") ->
            Parsed(createIdentifierExpr(tokens[current].lexeme), current + 1)
      [] check(tokens, current, "QUERY_VAR") ->
            Parsed(createIdentifierExpr(tokens[current].value.v), current + 1)
      [] check(tokens, current, "LPAREN") -> groupingOf(tokens, parseExpression(tokens, current + 1))
      [] tokens[current].type \notin {"NUMBER", "STRING", "IDENTIFIER", "QUERY_VAR", "LPAREN", "RANDOM"} ->
            Thrown("ParserError")

parseQueryCondition(tokens, current) == parseComparison(tokens, current)

checkEndOfQueryStatement(tokens, current) ==
    \/ isAtEnd(tokens, current)
    \/ check(tokens, current, "NEWLINE")
    \/ check(tokens, current, "END")
    \/ check(tokens, current, "WHERE")

\* the query statement once the condition after WHERE is parsed
queryWhere(pattern, relation, target, targetValue, condition) ==
    IF IsThrown(condition) THEN condition
    ELSE Parsed(createQueryStmt(pattern, relation, target, targetValue, <<condition.stmt>>),
                condition.next)

\* parseQuery from the WHERE check on
parseQueryWhere(tokens, pattern, relation, target, targetValue, current) ==
    IF check(tokens, current, "WHERE")
    THEN queryWhere(pattern, relation, target, targetValue, parseQueryCondition(tokens, current + 1))
    ELSE Parsed(createQueryStmt(pattern, relation, target, targetValue, <<>>), current)

\* parseQuery from the target on
parseQueryTarget(tokens, pattern, relation, current) ==
    IF ~check(tokens, current, "IDENTIFIER")
    THEN parseQueryWhere(tokens, pattern, relation, <<>>, Null, current)
    ELSE IF /\ relation = "HAS"
            /\ ~checkEndOfQueryStatement(tokens, current + 1)
            /\ tokens[current + 1].type \in {"NUMBER", "STRING", "IDENTIFIER"}
    THEN parseQueryWhere(tokens, pattern, relation, <<tokens[current].lexeme>>,
                         parseSimpleValue(tokens[current + 1]), current + 2)
    ELSE parseQueryWhere(tokens, pattern, relation, <<tokens[current].lexeme>>, Null, current + 1)

parseQuery(tokens, current) ==
    IF ~(tokens[current + 1].type \in {"IS", "HAS", "CAN"}) THEN Thrown("ParserError")
    ELSE parseQueryTarget(tokens,
                          IF tokens[current].type = "QUESTION" THEN createWildcardPattern
                          ELSE createVariablePattern(tokens[current].value.v),
                          Text(toUpperCase(Codes[tokens[current + 1].lexeme])), current + 2)

RECURSIVE skipNewlines(_, _)
skipNewlines(tokens, current) ==
    IF check(tokens, current, "NEWLINE") THEN skipNewlines(tokens, current + 1) ELSE current

createWhenStmt(condition, body) == [kind |-> "when", condition |-> condition, body |-> body]

RECURSIVE parseStatement(_, _)
RECURSIVE parseWhenBody(_, _, _, _)
\* the body loop of parseWhen once a statement is parsed
parseWhenNext(tokens, condition, body, parsed) ==
    IF IsThrown(parsed) THEN parsed
    ELSE parseWhenBody(tokens, condition, Append(body, parsed.stmt), skipNewlines(tokens, parsed.next))

\* the body loop of parseWhen, `current` after skipNewlines, and the END
parseWhenBody(tokens, condition, body, current) ==
    IF check(tokens, current, "END") THEN Parsed(createWhenStmt(condition, body), current + 1)
    ELSE IF isAtEnd(tokens, current) THEN Thrown("ParserError")
    ELSE parseWhenNext(tokens, condition, body, parseStatement(tokens, current))

\* `current` is at the WHEN
parseWhen(tokens, condition, current) ==
    IF ~check(tokens, current + 1, "DO") THEN Thrown("ParserError")
    ELSE parseWhenBody(tokens, condition, <<>>, skipNewlines(tokens, current + 2))

\* the end of parseStatement: a WHEN after the statement makes it a condition
parseLegacyWhen(tokens, parsed) ==
    IF IsThrown(parsed) THEN parsed
    ELSE IF check(tokens, parsed.next, "WHEN") THEN parseWhen(tokens, parsed.stmt, parsed.next)
    ELSE parsed

parseStatement(tokens, current) ==
    IF check(tokens, current, "QUESTION") \/ check(tokens, current, "QUERY_VAR")
    THEN parseQuery(tokens, current)
    ELSE IF ~check(tokens, current, "IDENTIFIER") THEN Thrown("ParserError")
    ELSE IF ~checkRelation(tokens, current + 1) THEN Thrown("ParserError")
    ELSE parseLegacyWhen(tokens,
                         parseRelation(tokens, tokens[current], tokens[current + 1], current + 2))

RECURSIVE parseFrom(_, _, _)
\* the loop of parse once a statement is parsed
parseNext(tokens, statements, parsed) ==
    IF IsThrown(parsed) THEN parsed
    ELSE parseFrom(tokens, parsed.next, Append(statements, parsed.stmt))

\* the loop of parse, `current` after skipNewlines
parseFrom(tokens, current, statements) ==
    IF isAtEnd(tokens, skipNewlines(tokens, current)) THEN Statements(statements)
    ELSE parseNext(tokens, statements, parseStatement(tokens, skipNewlines(tokens, current)))

parse(tokens) == parseFrom(tokens, 1, <<>>)

(***************************************************************************)
(* SpecSource: one-line sources typed into the console, each tokenized,    *)
(* parsed and executed; a TokenizerError or ParserError leaves the         *)
(* interpreter as it was.                                                  *)
(***************************************************************************)
SourceNames == {"A", "_x"}
SourceProps == {"P", "_Abilities", "_Items"}
SourceValues == {"5", "B", "$"}
SourceAbilities == {"x", "_x", "5"}

RECURSIVE Line(_)
\* the words of a line, one blank between two words
Line(words) ==
    IF Len(words) = 1 THEN Codes[words[1]]
    ELSE Codes[words[1]] \o <<32>> \o Line(Tail(words))

\* the catch block: the error is reported, interpreter.execute was not called
Reject(e) ==
    /\ error' = e
    /\ last' = <<>>
    /\ steps' = steps + 1
    /\ UNCHANGED <<nodes, parents, properties, context, whenSubject, output, drawn, store, returned>>

RunParsed(parsed) == IF IsThrown(parsed) THEN Reject(parsed.v) ELSE Run(parsed.v)
RunTokens(tokens) == IF IsThrown(tokens) THEN Reject(tokens.v) ELSE RunParsed(parse(tokens.v))
\* execute(code) of the console, for a trimmed, non-empty code that is no `:` command
RunSource(code) == RunTokens(tokenize(code))

SourceIs(S, T) ==
    /\ steps < MaxSteps
    /\ RunSource(Line(<<S, "IS", T>>))

SourceHas(S, prop, value) ==
    /\ steps < MaxSteps
    /\ RunSource(Line(<<S, "has", prop, value>>))

SourceHasOnly(S, prop) ==
    /\ steps < MaxSteps
    /\ RunSource(Line(<<S, "HAS", prop>>))

SourceCan(S, ability) ==
    /\ steps < MaxSteps
    /\ RunSource(Line(<<S, "CAN", ability>>))

SourceHit(S, T) ==
    /\ steps < MaxSteps
    /\ RunSource(Line(<<S, "Hit", T>>))

NextSource ==
    \/ \E S \in SourceNames, T \in SourceNames : SourceIs(S, T)
    \/ \E S \in SourceNames, prop \in SourceProps, value \in SourceValues : SourceHas(S, prop, value)
    \/ \E S \in SourceNames, prop \in SourceProps : SourceHasOnly(S, prop)
    \/ \E S \in SourceNames, ability \in SourceAbilities : SourceCan(S, ability)
    \/ \E S \in SourceNames, T \in SourceNames : SourceHit(S, T)

SpecSource == Init /\ [][NextSource]_vars

\* the names a parsed statement holds: subject, relation, arguments, ability, target
NamesOf(stmt) ==
    CASE stmt.kind = "relation" ->
            {stmt.subject, stmt.relation}
                \cup {stmt.arguments[i].v : i \in {j \in 1..Len(stmt.arguments) : stmt.arguments[j].t = "string"}}
      [] stmt.kind = "can" -> {stmt.subject, stmt.ability}
      [] stmt.kind = "loses" -> {stmt.subject, stmt.target}

\* what the interpreter itself stores under a key that opens with `_`
InternalValue(key, value) ==
    CASE key = "_Abilities" -> value.t = "set"
      [] key = "_DoBody" -> value.t = "body"
      [] key = "_Items" -> value.t = "list"
      [] key = "_Roles" -> value.t = "roles"
      [] OTHER -> value.t = "string"

\* C3: no accepted program names a property, node, or ability that opens with
\* `_`, and every own property key that opens with `_` holds what the
\* interpreter's internal machinery writes there, never the value of a HAS
C3_NoUnderscoreNames ==
    /\ \A i \in 1..Len(last) : \A name \in NamesOf(last[i]) : ~startsWithUnderscore(name)
    /\ \A n \in DOMAIN properties : \A key \in DOMAIN properties[n] :
            startsWithUnderscore(key) => InternalValue(key, properties[n][key])

\* `A has _Abilities 5` is accepted and stores the number 5 under `_Abilities`
C3_UserWritesInternalKey ==
    /\ last = <<createRelationStmt("A", "HAS", <<Str("_Abilities"), Num(5)>>)>>
    /\ error = "none"
    /\ Has(properties, "A") /\ Has(properties["A"], "_Abilities")
    /\ properties["A"]["_Abilities"] = Num(5)

(***************************************************************************)
(* SpecCan: CAN, LOSES and IS statements over two nodes and two abilities, *)
(* and the query `?w CAN a`; the first call may be the three statements of *)
(* scenario S6.                                                            *)
(***************************************************************************)
CanNodes == {"Knight", "Squire"}
CanAbilities == {"ATTACK", "DEFEND"}

QueryCanStmt(a) == createQueryStmt(createVariablePattern("w"), "CAN", <<a>>, Null, <<>>)

S6Program == <<createCanStmt("Knight", "ATTACK"), IsStmt("Squire", "Knight"), QueryCanStmt("ATTACK")>>

Scenario6 ==
    /\ steps = 0
    /\ Run(S6Program)

CIs(S, T) ==
    /\ steps < MaxSteps
    /\ Run(<<IsStmt(S, T)>>)

Can(S, a) ==
    /\ steps < MaxSteps
    /\ Run(<<createCanStmt(S, a)>>)

LosesAbility(S, a) ==
    /\ steps < MaxSteps
    /\ Run(<<createLosesStmt(S, a, "Auto")>>)

QueryCan(a) ==
    /\ steps < MaxSteps
    /\ Run(<<QueryCanStmt(a)>>)

NextCan ==
    \/ Scenario6
    \/ \E S \in CanNodes, T \in CanNodes : CIs(S, T)
    \/ \E S \in CanNodes, a \in CanAbilities : Can(S, a)
    \/ \E S \in CanNodes, a \in CanAbilities : LosesAbility(S, a)
    \/ \E a \in CanAbilities : QueryCan(a)

SpecCan == Init /\ [][NextCan]_vars

\* n holds ability a in its own _Abilities
OwnAbility(I, n, a) ==
    /\ Has(I.properties[n], "_Abilities")
    /\ I.properties[n]["_Abilities"].t = "set"
    /\ a \in I.properties[n]["_Abilities"].v

\* the nodes that hold a themselves or have an ancestor that does, in graph order
AbleNodes(I, a) ==
    LET Able(n) == \E m \in {n} \cup Ancestors(I, n) : OwnAbility(I, m, a)
    IN  SelectSeq(allNodes(I), Able)

\* C11: on a fresh interpreter `Knight CAN ATTACK`, `Squire IS Knight`,
\* `?w CAN ATTACK` emit `Query ?w: 2 nodes found`, `  - Knight`, `  - Squire`;
\* in every state the query `?w CAN a` completes and matches exactly the nodes
\* that hold a in their own _Abilities or have an ancestor that does.
C11_CanQueryMatchesAbleNodes ==
    /\ last = S6Program /\ steps = 1 =>
           output = <<"Query ?w: 2 nodes found", "  - Knight", "  - Squire">>
    /\ \A a \in CanAbilities :
           /\ ~Failed(After(Current, <<QueryCanStmt(a)>>))
           /\ After(Current, <<QueryCanStmt(a)>>).properties["w"]["_Items"].v = AbleNodes(Current, a)

\* the same on the graphs with no IS cycle
C11_OnAcyclicGraphs == Acyclic(Current) => C11_CanQueryMatchesAbleNodes

\* a query that matched a node through its parent
C11_InheritedMatch ==
    /\ last = <<QueryCanStmt("ATTACK")>>
    /\ error = "none"
    /\ \E n \in DOMAIN parents : Includes(output, "  - " \o n) /\ ~OwnAbility(Current, n, "ATTACK")

(***************************************************************************)
(* SpecChance: CHANCE statements and HAS statements with a RANDOM value,   *)
(* each under every draw of a small set of results of Math.random.         *)
(***************************************************************************)
createHasExpressionStmt(subject, property, valueExpression) ==
    [kind |-> "hasExpression", subject |-> subject, property |-> property,
     valueExpression |-> valueExpression]

\* results of Math.random: the least one, one that rolls 1, the middle, one that rolls 99
Draws == {Number(0, 100), Number(1, 100), Number(50, 100), Number(99, 100)}
\* a result of Math.random for every roll 0 .. 99
DrawsOfAllRolls == {Number(k, 100) : k \in 0..99}
Percents == {0, 50, 100}
\* ("X") PRINT and ("Y") PRINT
XBody == <<createExpressionPrintStmt(createStringExpr("X"))>>
YBody == <<createExpressionPrintStmt(createStringExpr("Y"))>>
ElseBodies == {<<>>, <<YBody>>}
\* 1, 3, 3 / 2, 7 / 2, -(3 / 2)
Operands ==
    {createNumberExpr(1), createNumberExpr(3),
     createBinaryExpr(createNumberExpr(3), "Divide", createNumberExpr(2)),
     createBinaryExpr(createNumberExpr(7), "Divide", createNumberExpr(2)),
     createUnaryExpr("Negate", createBinaryExpr(createNumberExpr(3), "Divide", createNumberExpr(2)))}

ChanceStmt(p, elseBody) == createChanceStmt(createNumberExpr(p), XBody, elseBody)
\* A HAS R (RANDOM a b)
HasRandomStmt(a, b) == createHasExpressionStmt("A", "R", createRandomExpr(a, b))

Chance(p, elseBody, d) ==
    /\ steps < MaxSteps
    /\ RunDrawing(<<d>>, <<ChanceStmt(p, elseBody)>>)

HasRandom(a, b, d) ==
    /\ steps < MaxSteps
    /\ RunDrawing(<<d>>, <<HasRandomStmt(a, b)>>)

NextChance ==
    \/ \E p \in Percents, elseBody \in ElseBodies, d \in Draws : Chance(p, elseBody, d)
    \/ \E a \in Operands, b \in Operands, d \in Draws : HasRandom(a, b, d)

SpecChance == Init /\ [][NextChance]_vars

\* C12: for every draw, `CHANCE 0 DO X END` never executes X and executes its
\* ELSE body when it has one, and `CHANCE 100 DO X END` always executes X and
\* never its ELSE body.
C12_ChanceZeroNeverHundredAlways ==
    \A d \in DrawsOfAllRolls, elseBody \in ElseBodies :
        /\ After(Drawing(Current, <<d>>), <<ChanceStmt(0, elseBody)>>).output
               = (IF elseBody = <<>> THEN <<>> ELSE <<"Y">>)
        /\ After(Drawing(Current, <<d>>), <<ChanceStmt(100, elseBody)>>).output = <<"X">>
        /\ ~Failed(After(Drawing(Current, <<d>>), <<ChanceStmt(0, elseBody)>>))
        /\ ~Failed(After(Drawing(Current, <<d>>), <<ChanceStmt(100, elseBody)>>))

\* a CHANCE 100 with an ELSE body has run X on the highest roll, and a
\* CHANCE 0 has run its ELSE body on the lowest roll
C12_Witness ==
    \/ /\ last = <<ChanceStmt(100, <<YBody>>)>>
       /\ drawn = <<Number(99, 100)>>
       /\ output = <<"X">>
    \/ /\ last = <<ChanceStmt(0, <<YBody>>)>>
       /\ drawn = <<Number(0, 100)>>
       /\ output = <<"Y">>

\* the value of an operand, and the value of `RANDOM a b` under the draw d
ValueOf(a) == evaluateExpression(Current, a)
RandomValue(a, b, d) == evaluateExpression(Drawing(Current, <<d>>), createRandomExpr(a, b))
IsInteger(x) == x.t = "number" /\ denominator(x) = 1
\* x <= y, of two numbers
AtMost(x, y) == compare(x, y).v <= 0
\* results of Math.random that lead `RANDOM a b` to each of its values, for
\* bounds up to six apart, and the draws of the actions
RandomDraws == {Number(i, 12) : i \in 0..11} \cup Draws
\* r is an integer of lo .. hi
Within(r, lo, hi) == IsInteger(r) /\ AtMost(lo, r) /\ AtMost(r, hi)

\* C13 as stated: for all numeric operands a and b and every draw, the value
\* of `RANDOM a b` is an integer r with floor(a) <= r <= floor(b), and it is
\* floor(a) when a = b.
C13_RandomWithinBounds ==
    \A a \in Operands, b \in Operands, d \in RandomDraws :
        /\ Within(RandomValue(a, b, d), floor(ValueOf(a)), floor(ValueOf(b)))
        /\ a = b => RandomValue(a, b, d) = floor(ValueOf(a))

\* C13 amended: for every draw the value of `RANDOM a b` is an integer r;
\* floor(a) <= r <= floor(b) when floor(a) <= floor(b), so r = floor(a) when
\* a = b; and floor(b) < r <= floor(a) when floor(b) < floor(a).
C13_RandomWithinOrderedBounds ==
    \A a \in Operands, b \in Operands, d \in RandomDraws :
        /\ AtMost(floor(ValueOf(a)), floor(ValueOf(b))) =>
               Within(RandomValue(a, b, d), floor(ValueOf(a)), floor(ValueOf(b)))
        /\ ~AtMost(floor(ValueOf(a)), floor(ValueOf(b))) =>
               Within(RandomValue(a, b, d), plus(floor(ValueOf(b)), Num(1)), floor(ValueOf(a)))
        /\ a = b => RandomValue(a, b, d) = floor(ValueOf(a))

\* `A HAS R (RANDOM (3 / 2) (7 / 2))` has stored 3 = floor(7 / 2) on the
\* highest roll, or `A HAS R (RANDOM (7 / 2) (7 / 2))` has stored 3
C13_Witness ==
    /\ error = "none"
    /\ Has(properties, "A") /\ Has(properties["A"], "R")
    /\ properties["A"]["R"] = Num(3)
    /\ drawn = <<Number(99, 100)>>
    /\ \/ last = <<HasRandomStmt(createBinaryExpr(createNumberExpr(3), "Divide", createNumberExpr(2)),
                                 createBinaryExpr(createNumberExpr(7), "Divide", createNumberExpr(2)))>>
       \/ last = <<HasRandomStmt(createBinaryExpr(createNumberExpr(7), "Divide", createNumberExpr(2)),
                                 createBinaryExpr(createNumberExpr(7), "Divide", createNumberExpr(2)))>>

(***************************************************************************)
(* SpecLogic: `(L AND R) PRINT` and `(L OR R) PRINT` over left operands of *)
(* every kind of value and right operands that throw, draw a random number *)
(* or are plain, on a node A whose HP a HAS statement sets.                *)
(***************************************************************************)
\* 0, 1, "", "a", A.HP, A, Nope
LeftOperands ==
    <<createNumberExpr(0), createNumberExpr(1), createStringExpr(""), createStringExpr("a"),
      createPropertyAccessExpr(createIdentifierExpr("A"), "HP"), createIdentifierExpr("A"),
      createIdentifierExpr("Nope")>>
\* Nope, 1 / 0, RANDOM 1 1, 1, 0
RightOperands ==
    {createIdentifierExpr("Nope"),
     createBinaryExpr(createNumberExpr(1), "Divide", createNumberExpr(0)),
     createRandomExpr(createNumberExpr(1), createNumberExpr(1)),
     createNumberExpr(1), createNumberExpr(0)}
Junctions == {"And", "Or"}

PrintStmt(expr) == createExpressionPrintStmt(expr)

LHas(n) ==
    /\ steps < MaxSteps
    /\ Run(<<createRelationStmt("A", "HAS", <<Str("HP"), Num(n)>>)>>)

PrintJunction(L, operator, R) ==
    /\ steps < MaxSteps
    /\ RunDrawing(<<Number(1, 2)>>, <<PrintStmt(createBinaryExpr(L, operator, R))>>)

NextLogic ==
    \/ \E n \in {0, 5} : LHas(n)
    \/ \E i \in DOMAIN LeftOperands, operator \in Junctions, R \in RightOperands :
            PrintJunction(LeftOperands[i], operator, R)

SpecLogic == Init /\ [][NextLogic]_vars

\* the value of expr, and the calls of Math.random its evaluation makes
Evaluated(expr) == evaluateExpression(Drawing(Current, <<Number(1, 2)>>), expr)
DrawsMade(expr) == drawsUsed(Drawing(Current, <<Number(1, 2)>>), expr)

\* C14: in `L AND R` with a falsy L, and in `L OR R` with a truthy L, R is
\* not evaluated: no error of R is raised, no random number is drawn, and
\* the result is false and true respectively.
C14_ShortCircuit ==
    \A i \in DOMAIN LeftOperands, R \in RightOperands :
        /\ ~IsThrown(Evaluated(LeftOperands[i])) /\ ~isTruthy(Evaluated(LeftOperands[i])) =>
               /\ Evaluated(createBinaryExpr(LeftOperands[i], "And", R)) = Bool(FALSE)
               /\ DrawsMade(createBinaryExpr(LeftOperands[i], "And", R)) = 0
        /\ ~IsThrown(Evaluated(LeftOperands[i])) /\ isTruthy(Evaluated(LeftOperands[i])) =>
               /\ Evaluated(createBinaryExpr(LeftOperands[i], "Or", R)) = Bool(TRUE)
               /\ DrawsMade(createBinaryExpr(LeftOperands[i], "Or", R)) = 0

\* `(A.HP AND 1 / 0) PRINT` has printed false with HP = 0, or
\* `(A.HP OR Nope) PRINT` has printed true with HP = 5
C14_Witness ==
    /\ error = "none"
    /\ Has(properties, "A") /\ Has(properties["A"], "HP")
    /\ \/ /\ properties["A"]["HP"] = Num(0)
          /\ last = <<PrintStmt(createBinaryExpr(createPropertyAccessExpr(createIdentifierExpr("A"), "HP"), "And",
                          createBinaryExpr(createNumberExpr(1), "Divide", createNumberExpr(0))))>>
          /\ output = <<"false">>
       \/ /\ properties["A"]["HP"] = Num(5)
          /\ last = <<PrintStmt(createBinaryExpr(createPropertyAccessExpr(createIdentifierExpr("A"), "HP"), "Or",
                          createIdentifierExpr("Nope")))>>
          /\ output = <<"true">>

(***************************************************************************)
(* SpecInherit: three nodes, IS statements that give a node one or two     *)
(* parents (cycles included), HAS statements that set Name to a string, a  *)
(* number or nothing (null), `S PRINT` and `(S.Name) PRINT`.               *)
(***************************************************************************)
InheritNodes == {"A", "B", "C"}
NameValues == <<Str("Hero"), Num(7)>>

\* S IS T1, S IS T2
NIs(S, T1, T2) ==
    /\ steps < MaxSteps
    /\ Run(<<IsStmt(S, T1), IsStmt(S, T2)>>)

\* S HAS Name "Hero", S HAS Name 7
NHas(S, value) ==
    /\ steps < MaxSteps
    /\ Run(<<HasStmt(S, "Name", value)>>)

\* S HAS Name
NHasNothing(S) ==
    /\ steps < MaxSteps
    /\ Run(<<createRelationStmt(S, "HAS", <<Str("Name")>>)>>)

\* S PRINT
NPrint(S) ==
    /\ steps < MaxSteps
    /\ Run(<<createRelationStmt(S, "PRINT", <<>>)>>)

\* (S.Name) PRINT
NPrintName(S) ==
    /\ steps < MaxSteps
    /\ Run(<<PrintStmt(createPropertyAccessExpr(createIdentifierExpr(S), "Name"))>>)

NextInherit ==
    \/ \E S \in InheritNodes, T1 \in InheritNodes, T2 \in InheritNodes : NIs(S, T1, T2)
    \/ \E S \in InheritNodes, i \in DOMAIN NameValues : NHas(S, NameValues[i])
    \/ \E S \in InheritNodes : NHasNothing(S)
    \/ \E S \in InheritNodes : NPrint(S)
    \/ \E S \in InheritNodes : NPrintName(S)

SpecInherit == Init /\ [][NextInherit]_vars

\* p is an own property of n or of an ancestor of n
Defines(I, n, p) == \E m \in {n} \cup Ancestors(I, n) : Has(I.properties[m], p)

\* C15: for a node n and a property p that neither n nor an ancestor of n
\* owns, getProperty(n, p) is null and evaluating `n.p` raises
\* PropertyNotFound and leaves the graph as it was.
C15_MissingPropertyIsNull ==
    \A n \in DOMAIN parents : \A p \in {"Name", "P"} :
        ~Defines(Current, n, p) =>
            /\ getProperty(Current, n, p) = Null
            /\ evaluateExpression(Current, createPropertyAccessExpr(createIdentifierExpr(n), p))
                   = Thrown("PropertyNotFound")
            /\ After(Current, <<PrintStmt(createPropertyAccessExpr(createIdentifierExpr(n), p))>>)
                   = [Entering(Current) EXCEPT !.error = "PropertyNotFound"]

\* the same on the graphs with no IS cycle
C15_OnAcyclicGraphs == Acyclic(Current) => C15_MissingPropertyIsNull

\* the value the walk "first parent subtree that defines p wins" yields
RECURSIVE firstDefining(_, _, _, _)
firstDefining(I, n, p, fuel) ==
    IF Has(I.properties[n], p) THEN I.properties[n][p]
    ELSE LET defining == {i \in 1..Len(I.parents[n]) : Defines(I, I.parents[n][i], p)}
         IN  IF defining = {} \/ fuel = 0 THEN Null
             ELSE firstDefining(I, (I.parents[n])[CHOOSE i \in defining : \A j \in defining : i <= j],
                                p, fuel - 1)

\* the parents of n, in declared order, whose own lookup of p is not null
Yielding(I, n, p) == {i \in 1..Len(I.parents[n]) : getProperty(I, I.parents[n][i], p) # Null}

PrintedName(I, X) ==
    IF X \notin DOMAIN I.parents THEN X
    ELSE IF getProperty(I, X, "Name") = Null THEN X
    ELSE String(getProperty(I, X, "Name"))

\* C19: `X PRINT` emits exactly one output line, the string form of the Name
\* property X resolves through inheritance when that value is not null and
\* X's own node name otherwise.
C19_PrintEmitsNameOrNodeName ==
    \A X \in InheritNodes :
        /\ After(Current, <<createRelationStmt(X, "PRINT", <<>>)>>).error = "none"
        /\ After(Current, <<createRelationStmt(X, "PRINT", <<>>)>>).output
               = <<PrintedName(Current, X)>>

\* the same on the graphs with no IS cycle
C19_OnAcyclicGraphs == Acyclic(Current) => C19_PrintEmitsNameOrNodeName

\* `X IS T`, `X HAS Name "Hero"`, `X PRINT` prints Hero in every graph
C19_Scenario2 ==
    \A X \in InheritNodes, T \in InheritNodes :
        After(Current, <<IsStmt(X, T), HasStmt(X, "Name", Str("Hero")),
                         createRelationStmt(X, "PRINT", <<>>)>>).output = <<"Hero">>

(***************************************************************************)
(* SpecAbort: calls of execute with three statements, the first two drawn  *)
(* from statements that print, that throw at once, or that throw after     *)
(* they changed the graph, the third a PRINT; at the top level and as the  *)
(* body of a WHEN (either branch) or of an EACH loop that a PRINT follows. *)
(***************************************************************************)
AbortNodes == {"A", "B"}
\* B PRINT
LaterStmt == createRelationStmt("B", "PRINT", <<>>)
\* A PRINT;  (1 / 0) PRINT;  A IS;  (A.Q) PRINT
AbortStatements ==
    << createRelationStmt("A", "PRINT", <<>>),
       PrintStmt(createBinaryExpr(createNumberExpr(1), "Divide", createNumberExpr(0))),
       createRelationStmt("A", "IS", <<>>),
       PrintStmt(createPropertyAccessExpr(createIdentifierExpr("A"), "Q")) >>
Nestings == {"when", "else", "each"}

\* WHEN A (1) { body },  WHEN A (0) { } ELSE { body },  EACH x IN B { body }
Nest(nesting, body) ==
    CASE nesting = "when" -> createWhenExpressionStmt("A", createNumberExpr(1), body, <<>>, <<>>)
      [] nesting = "else" -> createWhenExpressionStmt("A", createNumberExpr(0), <<>>, <<body>>, <<>>)
      [] nesting = "each" -> createEachStmt("B", "x", body)

TopLevel(i, j) == <<AbortStatements[i], AbortStatements[j], LaterStmt>>
Nested(nesting, i, j) == <<Nest(nesting, TopLevel(i, j)), LaterStmt>>

AIs(S, T) ==
    /\ steps < MaxSteps
    /\ Run(<<IsStmt(S, T)>>)

ExecuteTopLevel(i, j) ==
    /\ steps < MaxSteps
    /\ Run(TopLevel(i, j))

ExecuteNested(nesting, i, j) ==
    /\ steps < MaxSteps
    /\ Run(Nested(nesting, i, j))

NextAbort ==
    \/ \E S \in AbortNodes, T \in AbortNodes : AIs(S, T)
    \/ \E i \in DOMAIN AbortStatements, j \in DOMAIN AbortStatements : ExecuteTopLevel(i, j)
    \/ \E nesting \in Nestings, i \in DOMAIN AbortStatements, j \in DOMAIN AbortStatements :
           ExecuteNested(nesting, i, j)

SpecAbort == Init /\ [][NextAbort]_vars

\* when the first k statements already end in an error, the whole list leaves
\* the interpreter as those k statements do
StopsAtFailure(I, statements) ==
    \A k \in 1..Len(statements) :
        Failed(After(I, SubSeq(statements, 1, k)))
            => After(I, statements) = After(I, SubSeq(statements, 1, k))

\* the same for the statements of a body, whatever follows the nesting statement
StopsInBody(I, nesting, body) ==
    \A k \in 1..Len(body) :
        Failed(After(I, <<Nest(nesting, SubSeq(body, 1, k))>>))
            => After(I, <<Nest(nesting, body), LaterStmt>>)
                   = After(I, <<Nest(nesting, SubSeq(body, 1, k))>>)

\* C17: when a statement of the list given to execute raises an error, the
\* error leaves execute, and neither a later statement of the list nor a
\* later statement of an enclosing body nor a statement after that body is
\* executed: no output line and no change of the graph follows the failure.
C17_ErrorAbortsExecute ==
    \A i \in DOMAIN AbortStatements, j \in DOMAIN AbortStatements :
        /\ StopsAtFailure(Current, TopLevel(i, j))
        /\ \A nesting \in Nestings : StopsInBody(Current, nesting, TopLevel(i, j))

\* a call whose first statement printed a line, whose second statement
\* threw, and whose third statement, a PRINT, left no line
C17_Witness ==
    /\ Len(last) = 3
    /\ last[1] = AbortStatements[1]
    /\ last[3] = LaterStmt
    /\ error = "DivisionByZero"
    /\ Len(output) = 1

(***************************************************************************)
(* SpecRefs: statements that store node references: IS and LOSES IS        *)
(* (parents), HAS with the name of a node or of none (property values),    *)
(* the query `?v IS T` (the _Items of v), an EACH loop whose body throws   *)
(* (the loop variable stays bound in the context), and CAN.                *)
(***************************************************************************)
RefNodes == {"A", "B"}
\* Q names no node
RefValues == {"A", "B", "Q"}

RIs(S, T) ==
    /\ steps < MaxSteps
    /\ Run(<<IsStmt(S, T)>>)

RLosesIs(S, T) ==
    /\ steps < MaxSteps
    /\ Run(<<LosesIsStmt(S, T)>>)

RHas(S, V) ==
    /\ steps < MaxSteps
    /\ Run(<<HasStmt(S, "P", Str(V))>>)

\* ?v IS T
RQuery(T) ==
    /\ steps < MaxSteps
    /\ Run(<<createQueryStmt(createVariablePattern("v"), "IS", <<T>>, Null, <<>>)>>)

\* S IS T, EACH x IN T { (Nope) PRINT }
REach(S, T) ==
    /\ steps < MaxSteps
    /\ Run(<<IsStmt(S, T), createEachStmt(T, "x", ThrowingBody)>>)

RCan(S) ==
    /\ steps < MaxSteps
    /\ Run(<<createCanStmt(S, "ATTACK")>>)

NextRefs ==
    \/ \E S \in RefNodes, T \in RefNodes : RIs(S, T)
    \/ \E S \in RefNodes, T \in RefNodes : RLosesIs(S, T)
    \/ \E S \in RefNodes, V \in RefValues : RHas(S, V)
    \/ \E T \in RefNodes : RQuery(T)
    \/ \E S \in RefNodes, T \in RefNodes : REach(S, T)
    \/ \E S \in RefNodes : RCan(S)

SpecRefs == Init /\ [][NextRefs]_vars

\* the names under which the graph stores a node
Stored(I) == {I.nodes[i] : i \in 1..Len(I.nodes)}

\* the nodes a value refers to
Referred(value) ==
    CASE value.t = "node" -> {value.v}
      [] value.t = "list" -> {value.v[i] : i \in 1..Len(value.v)}
      [] OTHER -> {}

SnapshotIds(I) == {toJSON(I).nodes[i].id : i \in 1..Len(toJSON(I).nodes)}

\* C18: in every state reached by executing statements, every node that a
\* parents list, a property value, an _Items list or the context refers to
\* is a node the graph stores, and the source and the target of every edge
\* of the snapshot are ids of nodes of the snapshot.
C18_ReferencesAreStoredNodes ==
    /\ \A n \in DOMAIN parents : \A i \in 1..Len(parents[n]) : parents[n][i] \in Stored(Current)
    /\ \A n \in DOMAIN properties : \A key \in DOMAIN properties[n] :
           Referred(properties[n][key]) \subseteq Stored(Current)
    /\ \A name \in DOMAIN context : Referred(context[name]) \subseteq Stored(Current)
    /\ \A k \in 1..Len(toJSON(Current).edges) :
           /\ toJSON(Current).edges[k].source \in SnapshotIds(Current)
           /\ toJSON(Current).edges[k].target \in SnapshotIds(Current)

\* a state with a parent, a property that refers to a node, a non-empty
\* _Items list, a context binding to a node, and a snapshot edge
C18_Witness ==
    /\ \E n \in DOMAIN properties : \E key \in DOMAIN properties[n] : properties[n][key].t = "node"
    /\ \E n \in DOMAIN properties :
           Has(properties[n], "_Items") /\ Referred(properties[n]["_Items"]) # {}
    /\ \E name \in DOMAIN context : context[name].t = "node"
    /\ Len(toJSON(Current).edges) > 0

(***************************************************************************)
(* SpecWhere: token lists given to the parser and, when they parse, to the *)
(* interpreter: `S IS Monster`, `S HAS HP n`, and the query                *)
(* `?m IS Monster WHERE c` where c is one condition, or two joined by AND  *)
(* or OR, bare or in parentheses.                                          *)
(***************************************************************************)
WhereNodes == {"Orc", "Goblin"}
WhereHPs == {0, 5, 9}

Identifier(word) == createToken("IDENTIFIER", word, Null)
Keyword(type) == createToken(type, type, Null)
Symbol(type, lexeme) == createToken(type, lexeme, Null)
NumberToken(n) == createToken("NUMBER", ToString(n), Num(n))
QueryVarToken(name) == createToken("QUERY_VAR", "?" \o name, Str(name))
EndOfFile == createToken("EOF", "", Null)

\* m.HP
HPTokens == <<Identifier("m"), Symbol("DOT", "."), Identifier("HP")>>
HPExpr == createPropertyAccessExpr(createIdentifierExpr("m"), "HP")

\* the conditions  m.HP > 3,  m.HP < 9,  m.HP,  1  as tokens and as expressions
ConditionTokens ==
    << HPTokens \o <<Symbol("GT", ">"), NumberToken(3)>>,
       HPTokens \o <<Symbol("LT", "<"), NumberToken(9)>>,
       HPTokens,
       <<NumberToken(1)>> >>
ConditionExprs ==
    << createBinaryExpr(HPExpr, "GreaterThan", createNumberExpr(3)),
       createBinaryExpr(HPExpr, "LessThan", createNumberExpr(9)),
       HPExpr,
       createNumberExpr(1) >>
JunctionTokens == {"AND", "OR"}

\* ?m IS Monster WHERE <condition>
WhereTokens(condition) ==
    <<QueryVarToken("m"), Keyword("IS"), Identifier("Monster"), Keyword("WHERE")>>
        \o condition \o <<EndOfFile>>
JoinedTokens(i, junction, j) == ConditionTokens[i] \o <<Keyword(junction)>> \o ConditionTokens[j]
GroupedTokens(i, junction, j) ==
    <<Symbol("LPAREN", "(")>> \o JoinedTokens(i, junction, j) \o <<Symbol("RPAREN", ")")>>
JoinedExpr(i, junction, j) ==
    createBinaryExpr(ConditionExprs[i], getBinaryOperator(junction), ConditionExprs[j])

\* ?m IS Monster with this WHERE condition
WhereStmt(condition) ==
    createQueryStmt(createVariablePattern("m"), "IS", <<"Monster">>, Null, <<condition>>)

TokensIs(S) ==
    /\ steps < MaxSteps
    /\ RunTokens(Tokens(<<Identifier(S), Keyword("IS"), Identifier("Monster"), EndOfFile>>))

TokensHas(S, n) ==
    /\ steps < MaxSteps
    /\ RunTokens(Tokens(<<Identifier(S), Keyword("HAS"), Identifier("HP"), NumberToken(n), EndOfFile>>))

WhereOne(i) ==
    /\ steps < MaxSteps
    /\ RunTokens(Tokens(WhereTokens(ConditionTokens[i])))

WhereJoined(i, junction, j) ==
    /\ steps < MaxSteps
    /\ RunTokens(Tokens(WhereTokens(JoinedTokens(i, junction, j))))

WhereGrouped(i, junction, j) ==
    /\ steps < MaxSteps
    /\ RunTokens(Tokens(WhereTokens(GroupedTokens(i, junction, j))))

NextWhere ==
    \/ \E S \in WhereNodes : TokensIs(S)
    \/ \E S \in WhereNodes, n \in WhereHPs : TokensHas(S, n)
    \/ \E i \in DOMAIN ConditionTokens : WhereOne(i)
    \/ \E i \in DOMAIN ConditionTokens, junction \in JunctionTokens, j \in DOMAIN ConditionTokens :
           WhereJoined(i, junction, j)
    \/ \E i \in DOMAIN ConditionTokens, junction \in JunctionTokens, j \in DOMAIN ConditionTokens :
           WhereGrouped(i, junction, j)

SpecWhere == Init /\ [][NextWhere]_vars

\* C20: the WHERE of a query accepts AND and OR: for `?m IS T WHERE a AND b`
\* (and OR) the parser throws no ParserError, so no query of these token
\* lists is rejected, and gives exactly one Query statement whose
\* whereCondition is the whole `a AND b`.
C20_WhereAcceptsAndOr ==
    /\ error # "ParserError"
    /\ \A i \in DOMAIN ConditionTokens, junction \in JunctionTokens, j \in DOMAIN ConditionTokens :
           parse(WhereTokens(JoinedTokens(i, junction, j)))
               = Statements(<<WhereStmt(JoinedExpr(i, junction, j))>>)

\* a WHERE with one condition, and one with AND or OR in parentheses, parse
\* to one Query statement with the whole condition
C20_OneConditionOrGrouped ==
    /\ \A i \in DOMAIN ConditionTokens :
           parse(WhereTokens(ConditionTokens[i])) = Statements(<<WhereStmt(ConditionExprs[i])>>)
    /\ \A i \in DOMAIN ConditionTokens, junction \in JunctionTokens, j \in DOMAIN ConditionTokens :
           parse(WhereTokens(GroupedTokens(i, junction, j)))
               = Statements(<<WhereStmt(createGroupingExpr(JoinedExpr(i, junction, j)))>>)

\* every WHERE with a bare AND or OR ends in a ParserError
C20_JoinedIsRejected ==
    \A i \in DOMAIN ConditionTokens, junction \in JunctionTokens, j \in DOMAIN ConditionTokens :
        parse(WhereTokens(JoinedTokens(i, junction, j))) = Thrown("ParserError")

\* the graph has a node R that is no RELATION: neither named so nor below one
Untagged(I, R) ==
    /\ getNode(I, R) # NoNode
    /\ "RELATION" \notin {R} \cup Ancestors(I, R)

\* C21: invoking `S R args` where a node named R exists but R.is("RELATION")
\* is false fails with an InterpreterError, executes no statement of a
\* _DoBody, binds nothing in the context and sets no property on S: the
\* interpreter is left as resolving S left it.
C21_UntaggedRelationFails ==
    \A S \in RelationSubjects, T \in RelationSubjects :
        Untagged(Current, "Hit") =>
            After(Current, <<InvokeStmt(S, T)>>)
                = [resolveNode(Entering(Current), S) EXCEPT !.error = "InterpreterError"]

\* `A Hit B` has just failed on a Hit that has a body and a role but no tag
C21_Witness ==
    /\ last = <<InvokeStmt("A", "B")>>
    /\ error = "InterpreterError"
    /\ Untagged(Current, "Hit")
    /\ hasOwnProperty(Current, "Hit", "_DoBody")
    /\ hasOwnProperty(Current, "Hit", "_Roles")
    /\ DOMAIN context = {}
    /\ DOMAIN properties["A"] = {}

(***************************************************************************)
(* SpecRoles: the relation Hit with the roles self and other, whose body   *)
(* sets P on self and, before or after that, invokes the relation Heal on  *)
(* other; Heal has one role, named self or m, and sets Q on it.            *)
(***************************************************************************)
RoleSubjects == {"A", "B"}
HealRoles == {"self", "m"}
\* self HAS P 5
SetP == createRelationStmt("self", "HAS", <<Str("P"), Num(5)>>)
\* other Heal
NestedInvocation == createRelationStmt("other", "Heal", <<>>)
HitBodies == {<<SetP>>, <<NestedInvocation, SetP>>, <<SetP, NestedInvocation>>}

\* Hit IS RELATION, Hit HAS self (Node), Hit HAS other (Node), Hit DO body END
DeclareHit(body) ==
    /\ steps < MaxSteps
    /\ Run(DeclarationOf(<<"self", "other">>, body))

\* Heal IS RELATION, Heal HAS role (Node), Heal DO role HAS Q 5 END
DeclareHeal(role) ==
    /\ steps < MaxSteps
    /\ Run(<<IsStmt("Heal", "RELATION"), createRoleDefinitionStmt("Heal", role),
             createDoBlockStmt("Heal", <<createRelationStmt(role, "HAS", <<Str("Q"), Num(5)>>)>>)>>)

\* S Hit T
InvokeHit(S, T) ==
    /\ steps < MaxSteps
    /\ Run(<<InvokeStmt(S, T)>>)

\* S LOSES P
LosesP(S) ==
    /\ steps < MaxSteps
    /\ Run(<<createLosesStmt(S, "P", "Auto")>>)

NextRoles ==
    \/ \E body \in HitBodies : DeclareHit(body)
    \/ \E role \in HealRoles : DeclareHeal(role)
    \/ \E S \in RoleSubjects, T \in RoleSubjects : InvokeHit(S, T)
    \/ \E S \in RoleSubjects : LosesP(S)

SpecRoles == Init /\ [][NextRoles]_vars

\* the statements of Hit's body act on the nodes the invocation `S Hit T`
\* bound: S has P afterwards, and no statement took a role name for the
\* name of a node
RolesHeld(I, S, T) ==
    /\ ~Failed(After(I, <<InvokeStmt(S, T)>>))
    /\ Has(After(I, <<InvokeStmt(S, T)>>).properties[S], "P")
    /\ getNode(After(I, <<InvokeStmt(S, T)>>), "self") = NoNode
    /\ getNode(After(I, <<InvokeStmt(S, T)>>), "other") = NoNode

\* C22: while the body of a custom relation runs, role[0] stays bound to the
\* subject of the invocation and role[i] to the node of argument i - 1, for
\* every statement of the body, those after a nested invocation of a
\* relation that declares a role of the same name included.
C22_RolesStayBoundInBody ==
    \A S \in RoleSubjects, T \in RoleSubjects :
        (BodyRuns(Current, "Hit") /\ getNode(Current, "self") = NoNode) => RolesHeld(Current, S, T)

\* the roles of Heal
HealDeclares(I) == IF getNode(I, "Heal") = NoNode THEN {} ELSE RolesOf(I, "Heal")

\* the roles stay bound when the nested relation declares no role of Hit, or
\* when the nested invocation is the last statement of the body
C22_UnlessRoleShared ==
    \A S \in RoleSubjects, T \in RoleSubjects :
        ( /\ BodyRuns(Current, "Hit")
          /\ getNode(Current, "self") = NoNode
          /\ \/ "self" \notin HealDeclares(Current)
             \/ getProperty(Current, "Hit", "_DoBody").v # <<NestedInvocation, SetP>> )
            => RolesHeld(Current, S, T)

(***************************************************************************)
(* SpecEach: `Monster EACH m DO body END` over the nodes Orc and Goblin,   *)
(* Orc a child of Monster or not, Goblin a child of Monster, of Orc, of     *)
(* both or of neither.  A body                                             *)
(* prints m; or prints m and makes a new child of Monster; or runs an      *)
(* inner loop with the same variable and then prints m.                    *)
(***************************************************************************)
\* Orc IS Monster, Goblin IS Monster, Goblin IS Orc: no IS cycle arises
EachEdges == {<<"Orc", "Monster">>, <<"Goblin", "Monster">>, <<"Goblin", "Orc">>}
\* m PRINT
PrintM == createRelationStmt("m", "PRINT", <<>>)
PrintBody == <<PrintM>>
\* m PRINT, B IS Monster
AddingBody == <<PrintM, IsStmt("B", "Monster")>>
\* Monster EACH m DO END, m PRINT
RebindingBody == <<createEachStmt("Monster", "m", <<>>), PrintM>>
EachBodies == {PrintBody, AddingBody, RebindingBody}
EachCollections == {"Monster", "Nope"}

EIs(S, T) ==
    /\ steps < MaxSteps
    /\ Run(<<IsStmt(S, T)>>)

ELosesIs(S, T) ==
    /\ steps < MaxSteps
    /\ Run(<<LosesIsStmt(S, T)>>)

Each(collection, body) ==
    /\ steps < MaxSteps
    /\ Run(<<createEachStmt(collection, "m", body)>>)

NextEach ==
    \/ \E edge \in EachEdges : EIs(edge[1], edge[2])
    \/ \E edge \in EachEdges : ELosesIs(edge[1], edge[2])
    \/ \E collection \in EachCollections, body \in EachBodies : Each(collection, body)

SpecEach == Init /\ [][NextEach]_vars

\* the nodes whose parents list holds C, in graph order
ChildrenOf(I, C) ==
    LET IsChild(n) == Includes(I.parents[n], C)
    IN  SelectSeq(I.nodes, IsChild)

\* the loop over Monster with this body printed every child once, in graph
\* order, under its own name, left m unbound and made no node named m
VisitsChildren(I, body) ==
    /\ After(I, <<createEachStmt("Monster", "m", body)>>).error = "none"
    /\ After(I, <<createEachStmt("Monster", "m", body)>>).output = ChildrenOf(I, "Monster")
    /\ ~Has(After(I, <<createEachStmt("Monster", "m", body)>>).context, "m")
    /\ getNode(After(I, <<createEachStmt("Monster", "m", body)>>), "m") = getNode(I, "m")

\* the loop over a name that is no node raises InterpreterError and runs no body
MissingCollectionFails(I, body) ==
    After(I, <<createEachStmt("Nope", "m", body)>>) = Throw(Entering(I), "InterpreterError")

\* C23: `C EACH v DO body END` with C a node runs body once for each node
\* whose parents list holds C when the loop starts, in graph order, with v
\* bound to that node (so `v PRINT` prints it); heirs of heirs and children
\* the body adds are not visited, and v is unbound afterwards.  With C no
\* node an InterpreterError is raised and body is not run.
C23_EachVisitsDirectChildren ==
    \A body \in EachBodies :
        /\ getNode(Current, "Monster") # NoNode => VisitsChildren(Current, body)
        /\ MissingCollectionFails(Current, body)

\* the same for the bodies that do not bind the loop variable again
C23_UnlessBodyRebinds ==
    \A body \in {PrintBody, AddingBody} :
        /\ getNode(Current, "Monster") # NoNode => VisitsChildren(Current, body)
        /\ MissingCollectionFails(Current, body)

(***************************************************************************)
(* SpecAll: ALL statements over a type name or over the query variable ?v, *)
(* with no action, with the action HAS P 5 and (type name) with PRINT, in  *)
(* graphs that IS and LOSES IS statements over A and B build, cycles       *)
(* included; the query `?v IS T` stores the list that `ALL ?v` reads.      *)
(***************************************************************************)
AllNodes == {"A", "B"}
\* Q names no node
AllTypes == {"A", "B", "Q"}
\* HAS P 5  and  PRINT, the subject to be replaced
HasAction == createRelationStmt("", "HAS", <<Str("P"), Num(5)>>)
PrintAction == createRelationStmt("", "PRINT", <<>>)
AllActions == {<<>>, <<HasAction>>, <<PrintAction>>}
VarActions == {<<>>, <<HasAction>>}

AllStmt(T, action) == createAllStmt(T, <<>>, action)
AllVarStmt(action) == createAllStmt("v", <<"v">>, action)
QueryVStmt(T) == createQueryStmt(createVariablePattern("v"), "IS", <<T>>, Null, <<>>)

LIs(S, T) ==
    /\ steps < MaxSteps
    /\ Run(<<IsStmt(S, T)>>)

LLosesIs(S, T) ==
    /\ steps < MaxSteps
    /\ Run(<<LosesIsStmt(S, T)>>)

All(T, action) ==
    /\ steps < MaxSteps
    /\ Run(<<AllStmt(T, action)>>)

QueryV(T) ==
    /\ steps < MaxSteps
    /\ Run(<<QueryVStmt(T)>>)

\* the program `S IS T`, `?v IS T`
IsQueryV(S, T) ==
    /\ steps < MaxSteps
    /\ Run(<<IsStmt(S, T), QueryVStmt(T)>>)

AllVar(action) ==
    /\ steps < MaxSteps
    /\ Run(<<AllVarStmt(action)>>)

NextAll ==
    \/ \E S \in AllNodes, T \in AllNodes : LIs(S, T)
    \/ \E S \in AllNodes, T \in AllNodes : LLosesIs(S, T)
    \/ \E T \in AllTypes, action \in AllActions : All(T, action)
    \/ \E T \in AllNodes : QueryV(T)
    \/ \E S \in AllNodes, T \in AllNodes : IsQueryV(S, T)
    \/ \E action \in VarActions : AllVar(action)

SpecAll == Init /\ [][NextAll]_vars

\* the nodes that are T: T itself and the nodes below it, in graph order
Members(I, T) ==
    LET IsMember(n) == T \in {n} \cup Ancestors(I, n)
    IN  SelectSeq(I.nodes, IsMember)

RECURSIVE WithPOn(_, _, _)
\* P = 5 set on the nodes of the list, one after the other
WithPOn(I, list, i) ==
    IF i > Len(list) THEN I ELSE WithPOn(setProperty(I, list[i], "P", Num(5)), list, i + 1)

\* C24: `ALL T <action>` runs the action once for every node n with n.is(T)
\* at the start of the statement, the node T included, in graph order and
\* with n as the subject (PRINT emits the node names, no node having a Name
\* here); with no action it emits `ALL T: N nodes found` for the N such
\* nodes and leaves the graph as it is.
C24_AllActsOnEveryMember ==
    \A T \in AllTypes :
        /\ After(Current, <<AllStmt(T, <<>>)>>)
               = onOutput(Entering(Current),
                          "ALL " \o T \o ": " \o ToString(Len(Members(Current, T))) \o " nodes found")
        /\ After(Current, <<AllStmt(T, <<HasAction>>)>>)
               = WithPOn(Entering(Current), Members(Current, T), 1)
        /\ After(Current, <<AllStmt(T, <<PrintAction>>)>>).output
               = Members(Current, T)

\* the same on the graphs with no IS cycle
C24_OnAcyclicGraphs == Acyclic(Current) => C24_AllActsOnEveryMember

\* the list the last successful `?v` query left under _Items of node v
StoredItems(I) ==
    IF Has(I.properties, "v") /\ Has(I.properties["v"], "_Items")
    THEN I.properties["v"]["_Items"].v
    ELSE <<>>

NoResults == "ALL ?v: No query results found (run query first)"

\* `ALL ?v` and `ALL ?v HAS P 5` read the stored list of graph I
ActsOnStored(I) ==
    IF StoredItems(I) = <<>>
    THEN \A action \in VarActions :
             After(I, <<AllVarStmt(action)>>) = onOutput(Entering(I), NoResults)
    ELSE /\ After(I, <<AllVarStmt(<<HasAction>>)>>) = WithPOn(Entering(I), StoredItems(I), 1)
         /\ After(I, <<AllVarStmt(<<>>)>>)
                = onOutput(Entering(I), "ALL ?v: " \o ToString(Len(StoredItems(I))) \o " nodes found")

C25_WitnessNoResults ==
    /\ Len(last) = 1
    /\ last[1] = AllVarStmt(<<HasAction>>)
    /\ output = <<NoResults>>
    /\ nodes # <<>>

(***************************************************************************)
(* SpecLegacy: the legacy form `<statement> WHEN DO body END`, given to    *)
(* the parser as tokens, with a CAN, a HAS or an IS statement as its       *)
(* condition, in graphs that IS and CAN statements over Knight and Squire  *)
(* build.                                                                  *)
(***************************************************************************)
\* Q HAS P 5: the body; Q takes no other part
LegacyBody == <<HasStmt("Q", "P", Num(5))>>
LegacyBodyTokens == <<Identifier("Q"), Keyword("HAS"), Identifier("P"), NumberToken(5)>>

\* <condition> WHEN DO Q HAS P 5 END
LegacyTokens(condition) ==
    condition \o <<Keyword("WHEN"), Keyword("DO")>> \o LegacyBodyTokens \o <<Keyword("END"), EndOfFile>>

CanTokens(X, a) == <<Identifier(X), Keyword("CAN"), Identifier(a)>>
IsTokens(X, T) == <<Identifier(X), Keyword("IS"), Identifier(T)>>
HasTokens(X) == <<Identifier(X), Keyword("HAS"), Identifier("HP")>>

\* the statements the parser makes of the tokens
ParsedOf(tokens) == parse(tokens).v

GIs(S, T) ==
    /\ steps < MaxSteps
    /\ Run(<<IsStmt(S, T)>>)

GCan(S, a) ==
    /\ steps < MaxSteps
    /\ Run(<<createCanStmt(S, a)>>)

GHas(S) ==
    /\ steps < MaxSteps
    /\ Run(<<HasStmt(S, "HP", Num(3))>>)

CanWhen(X, a) ==
    /\ steps < MaxSteps
    /\ RunTokens(Tokens(LegacyTokens(CanTokens(X, a))))

IsWhen(X, T) ==
    /\ steps < MaxSteps
    /\ RunTokens(Tokens(LegacyTokens(IsTokens(X, T))))

HasWhen(X) ==
    /\ steps < MaxSteps
    /\ RunTokens(Tokens(LegacyTokens(HasTokens(X))))

NextLegacy ==
    \/ \E S \in CanNodes, T \in CanNodes : GIs(S, T)
    \/ \E S \in CanNodes, a \in CanAbilities : GCan(S, a)
    \/ \E S \in CanNodes : GHas(S)
    \/ \E X \in CanNodes, a \in CanAbilities : CanWhen(X, a)
    \/ \E X \in CanNodes, T \in CanNodes : IsWhen(X, T)
    \/ \E X \in CanNodes : HasWhen(X)

SpecLegacy == Init /\ [][NextLegacy]_vars

\* C26: `X CAN a WHEN DO body END` runs the body exactly when node X exists
\* and has the ability a, its own or an ancestor's, and never executes the
\* condition: no ability is added.
C26_CanWhenRunsBodyIffAble ==
    \A X \in CanNodes, a \in CanAbilities :
        After(Current, ParsedOf(LegacyTokens(CanTokens(X, a))))
            = IF Includes(AbleNodes(Current, a), X) THEN After(Current, LegacyBody)
              ELSE Entering(Current)

\* what the code does: the condition is a statement of kind `can`, which
\* evaluateCondition takes for false; the body never runs
C26_CanWhenNeverRuns ==
    \A X \in CanNodes, a \in CanAbilities :
        /\ ParsedOf(LegacyTokens(CanTokens(X, a)))
               = <<createWhenStmt(createCanStmt(X, a), LegacyBody)>>
        /\ After(Current, ParsedOf(LegacyTokens(CanTokens(X, a)))) = Entering(Current)

\* with a HAS or an IS condition, a statement of kind `relation`, the body
\* runs exactly when the condition holds (graphs with no IS cycle)
C26_RelationWhenRunsBodyIffHeld ==
    Acyclic(Current) =>
        /\ \A X \in CanNodes :
               After(Current, ParsedOf(LegacyTokens(HasTokens(X))))
                   = IF Has(parents, X) /\ getProperty(Current, X, "HP") # Null
                     THEN After(Current, LegacyBody) ELSE Entering(Current)
        /\ \A X \in CanNodes, T \in CanNodes :
               After(Current, ParsedOf(LegacyTokens(IsTokens(X, T))))
                   = IF Has(parents, X) /\ T \in {X} \cup Ancestors(Current, X)
                     THEN After(Current, LegacyBody) ELSE Entering(Current)

(***************************************************************************)
(* SpecResolve: bare identifiers evaluated inside a WHEN block, whose      *)
(* subject may own or inherit a property named like a node (HP), with and  *)
(* without an EACH variable of that name around it.                        *)
(***************************************************************************)
ResolveNodes == {"Orc", "HP"}
\* Ghost names no node
ResolveSubjects == {"Orc", "Ghost"}
ResolveNames == {"Orc", "HP", "Ghost"}
ResolveValues == {Num(3), Null}

\* X WHEN name DO Q HAS P 5 END
WhenIdStmt(X, name) == WhenStmt(X, createIdentifierExpr(name), LegacyBody)
\* T EACH HP DO X WHEN name DO Q HAS P 5 END END
EachWhenIdStmt(T, X, name) == createEachStmt(T, "HP", <<WhenIdStmt(X, name)>>)

VIs(S, T) ==
    /\ steps < MaxSteps
    /\ Run(<<IsStmt(S, T)>>)

VHas(S, name, value) ==
    /\ steps < MaxSteps
    /\ Run(<<createRelationStmt(S, "HAS", IF value = Null THEN <<Str(name)>> ELSE <<Str(name), value>>)>>)

WhenId(X, name) ==
    /\ steps < MaxSteps
    /\ Run(<<WhenIdStmt(X, name)>>)

EachWhenId(T, X, name) ==
    /\ steps < MaxSteps
    /\ Run(<<EachWhenIdStmt(T, X, name)>>)

NextResolve ==
    \/ \E S \in ResolveNodes, T \in ResolveNodes : VIs(S, T)
    \/ \E S \in ResolveNodes, name \in {"HP", "Ghost"}, value \in ResolveValues : VHas(S, name, value)
    \/ \E X \in ResolveSubjects, name \in ResolveNames : WhenId(X, name)
    \/ \E T \in ResolveNodes, X \in ResolveSubjects, name \in ResolveNames : EachWhenId(T, X, name)

SpecResolve == Init /\ [][NextResolve]_vars

RECURSIVE Inherited(_, _, _, _), InheritedFrom(_, _, _, _, _)
\* the value of p that n owns, or the first non-null one its parents give in
\* declared order, no node looked at twice on one path
Inherited(I, n, p, seen) ==
    IF Has(I.properties[n], p) THEN I.properties[n][p]
    ELSE IF n \in seen THEN Null
    ELSE InheritedFrom(I, n, p, seen \cup {n}, 1)
InheritedFrom(I, n, p, seen, i) ==
    IF i > Len(I.parents[n]) THEN Null
    ELSE IF Inherited(I, I.parents[n][i], p, seen) # Null THEN Inherited(I, I.parents[n][i], p, seen)
    ELSE InheritedFrom(I, n, p, seen, i + 1)

\* what the identifier is to denote in interpreter J
Denoted(J, name) ==
    IF Has(J.context, name) THEN J.context[name]
    ELSE IF Has(J.parents, name) THEN NodeRef(name)
    ELSE IF J.whenSubject # NoNode /\ Inherited(J, J.whenSubject, name, {}) # Null
    THEN Inherited(J, J.whenSubject, name, {})
    ELSE Thrown("NodeNotFound")

\* the interpreters the condition and the body of `X WHEN` are evaluated in,
\* at the top level and inside `EACH HP` visiting a node
InsideWhen(I, X) ==
    {whenEnter(Entering(I), getNode(I, X), X)}
        \cup {whenEnter([Entering(I) EXCEPT !.context = Put(@, "HP", NodeRef(I.nodes[i]))],
                        getNode(I, X), X) : i \in 1..Len(I.nodes)}

\* C27: a bare identifier denotes the context binding of that name; else the
\* graph node of that name, so a node named like a property shadows the
\* WHEN subject's property; else, inside a WHEN, the non-null value of that
\* property the subject owns or inherits; else NodeNotFound is raised; and
\* the resolution never creates a node: `X WHEN name DO body END` runs the
\* body and nothing else when the name denotes a node or the number 3, and
\* ends in NodeNotFound with the graph as it was when it denotes nothing.
C27_IdentifierResolution ==
    \A X \in ResolveSubjects, name \in ResolveNames :
        /\ \A J \in InsideWhen(Current, X) :
               evaluateExpression(J, createIdentifierExpr(name)) = Denoted(J, name)
        /\ After(Current, <<WhenIdStmt(X, name)>>)
               = IF Denoted(whenEnter(Entering(Current), getNode(Current, X), X), name)
                        = Thrown("NodeNotFound")
                 THEN [Entering(Current) EXCEPT !.error = "NodeNotFound"]
                 ELSE After(Current, LegacyBody)

\* the same on the graphs with no IS cycle
C27_OnAcyclicGraphs == Acyclic(Current) => C27_IdentifierResolution

\* the three sources at work in one state: HP is a node and a property of Orc
\* (the node wins), Ghost is a property of Orc only, Orc is bound as subject
C27_Sources ==
    /\ Acyclic(Current)
    /\ Has(parents, "HP")
    /\ Has(parents, "Orc")
    /\ Inherited(Current, "Orc", "HP", {}) = Num(3)
    /\ Inherited(Current, "Orc", "Ghost", {}) = Num(3)

\* the own _Abilities of node Y, null without one
OwnAbilities(I, Y) == IF Has(I.properties[Y], "_Abilities") THEN I.properties[Y]["_Abilities"] ELSE Null

\* the statement changes the own _Abilities of no node but X
OthersKeepAbilities(I, X, stmt) ==
    \A Y \in DOMAIN I.parents \ {X} : OwnAbilities(After(I, <<stmt>>), Y) = OwnAbilities(I, Y)

\* C28: `X CAN a` and `X LOSES a` change the ability set of X only: the own
\* _Abilities of every other node stays as it was, also when X has no own
\* _Abilities and inherits one from a parent.
C28_CanChangesSubjectOnly ==
    \A X \in CanNodes, a \in CanAbilities :
        /\ OthersKeepAbilities(Current, X, createCanStmt(X, a))
        /\ OthersKeepAbilities(Current, X, createLosesStmt(X, a, "Auto"))

\* it does when X owns its _Abilities or finds none above it
C28_UnlessInherited ==
    \A X \in CanNodes, a \in CanAbilities :
        (Has(parents, X) /\ ~Has(properties[X], "_Abilities")
             /\ ~IsThrown(getProperty(Current, X, "_Abilities"))
             /\ getProperty(Current, X, "_Abilities") # Null)
        \/ (/\ OthersKeepAbilities(Current, X, createCanStmt(X, a))
            /\ OthersKeepAbilities(Current, X, createLosesStmt(X, a, "Auto")))

\* the set is the parent's: the heir's CAN and LOSES are written to it, and
\* the heir gets no _Abilities of its own
C28_InheritedSetIsShared ==
    (/\ Acyclic(Current)
     /\ Has(parents, "Squire") /\ Has(parents, "Knight")
     /\ parents["Squire"] = <<"Knight">>
     /\ ~Has(properties["Squire"], "_Abilities")
     /\ OwnAbilities(Current, "Knight") = StringSet({"ATTACK"}))
        => /\ After(Current, <<createCanStmt("Squire", "DEFEND")>>).properties
                  = [properties EXCEPT !["Knight"] = Put(@, "_Abilities", StringSet({"ATTACK", "DEFEND"}))]
           /\ After(Current, <<createLosesStmt("Squire", "ATTACK", "Auto")>>).properties
                  = [properties EXCEPT !["Knight"] = Put(@, "_Abilities", StringSet({}))]

(***************************************************************************)
(* The console's store (createInterpreterStore)                            *)
(*                                                                         *)
(* `store` is the store's state {graphData, output, history, historyIndex} *)
(* and the interpreter it drives is the one of the variables above.  A     *)
(* code is the run of its characters.  An output line is a record of its   *)
(* type and text; the echo of a command holds the code.  Of an error       *)
(* message the store builds, only the prefix that tells its class is kept. *)
(* `returned` is what the last call of navigateHistory returned, <<>> for  *)
(* null.                                                                   *)
(***************************************************************************)
OutputLine(type, text) == [type |-> type, text |-> text]
\* { type: 'command', text: `> ${trimmedCode}` }
CommandLine(trimmedCode) == [type |-> "command", code |-> trimmedCode]
\* the interpreter and the store's state after a call
Repl(I, state, statements) == [interpreter |-> I, state |-> state, statements |-> statements]

isWhitespace(c) == c \in {9, 10, 13, 32}
RECURSIVE trimStart(_), trimEnd(_)
trimStart(code) ==
    IF Len(code) > 0 /\ isWhitespace(Head(code)) THEN trimStart(Tail(code)) ELSE code
trimEnd(code) ==
    IF Len(code) > 0 /\ isWhitespace(code[Len(code)]) THEN trimEnd(SubSeq(code, 1, Len(code) - 1))
    ELSE code
trim(code) == trimEnd(trimStart(code))

\* the update of the onOutput callback, for the lines of one call
onOutputLines(state, lines) ==
    [state EXCEPT !.output = @ \o [i \in 1..Len(lines) |-> OutputLine("output", lines[i])]]

\* the class prefix of errorMessage in the catch block of execute
errorMessage(e) ==
    CASE e = "TokenizerError" -> "Tokenizer Error"
      [] e = "ParserError" -> "Parser Error"
      [] e = RangeError -> "Error"
      [] OTHER -> e

\* the catch block of execute
caught(state, e) == [state EXCEPT !.output = Append(@, OutputLine("error", errorMessage(e)))]

RECURSIVE joined(_)
\* names.join(', ')
joined(names) ==
    IF Len(names) = 0 THEN ""
    ELSE IF Len(names) = 1 THEN names[1]
    ELSE names[1] \o ", " \o joined(Tail(names))

\* `${key}=${val}` of formatNode
visibleProp(key, value) ==
    key \o "=" \o (IF value.t = "string" THEN "\"" \o value.v \o "\""
                   ELSE IF value.t = "node" THEN "->" \o value.v
                   ELSE String(value))

RECURSIVE listed(_)
\* the keys of a Map or Set in the order they were added, which the model
\* keeps for no more than one key
listed(keys) ==
    IF keys = {} THEN <<>>
    ELSE <<CHOOSE k \in keys : TRUE>> \o listed(keys \ {CHOOSE k \in keys : TRUE})

formatNode(I, node) ==
    LET props == I.properties[node]
        visible == {k \in DOMAIN props : ~startsWithUnderscore(k)}
        shown == [i \in 1..Len(listed(visible)) |->
                     visibleProp(listed(visible)[i], props[listed(visible)[i]])]
    IN  "Node(" \o node \o ")"
        \o (IF Len(I.parents[node]) > 0 THEN " IS " \o joined(I.parents[node]) ELSE "")
        \o (IF visible # {} THEN " { " \o joined(shown) \o " }" ELSE "")
        \o (IF Has(props, "_Items") /\ props["_Items"].t = "list" /\ Len(props["_Items"].v) > 0
            THEN " CONTAINS [" \o joined(props["_Items"].v) \o "]" ELSE "")
        \o (IF Has(props, "_Abilities") /\ props["_Abilities"].t = "set" /\ props["_Abilities"].v # {}
            THEN " CAN [" \o joined(listed(props["_Abilities"].v)) \o "]" ELSE "")

\* the lines dumpGraph hands to onOutput
dumpGraph(I) ==
    IF Len(I.nodes) = 0 THEN <<"--- Graph State ---", "(empty)">>
    ELSE <<"--- Graph State ---">> \o [i \in 1..Len(I.nodes) |-> formatNode(I, I.nodes[i])]
             \o <<"-------------------">>

helpText ==
    << "--- SongLang REPL Help ---", ":clear, :c  - Clear graph", ":graph, :g  - Dump graph state",
       ":help, :h   - Show this help", "", "--- Language Basics ---",
       "Player IS Entity      - Type inheritance", "Player HAS HP 100     - Set property",
       "Player CAN ATTACK     - Add ability", "Player PRINT          - Print node name",
       "DEBUG GRAPH           - Show graph state" >>

\* :clear :c :graph :g :help :h
ColonClear == <<58, 99, 108, 101, 97, 114>>
ColonC == <<58, 99>>
ColonGraph == <<58, 103, 114, 97, 112, 104>>
ColonG == <<58, 103>>
ColonHelp == <<58, 104, 101, 108, 112>>
ColonH == <<58, 104>>

handleReplCommand(I, state, command) ==
    LET cmd == toLowerCase(command)
    IN  IF cmd = ColonClear \/ cmd = ColonC
        THEN Repl(Fresh,
                  [state EXCEPT !.graphData = [nodes |-> <<>>, edges |-> <<>>],
                                !.output = Append(@, OutputLine("output", "Graph cleared."))],
                  <<>>)
        ELSE IF cmd = ColonGraph \/ cmd = ColonG
        THEN Repl(I, [onOutputLines(state, dumpGraph(I)) EXCEPT !.graphData = toJSON(I)], <<>>)
        ELSE IF cmd = ColonHelp \/ cmd = ColonH
        THEN Repl(I, onOutputLines(state, helpText), <<>>)
        ELSE Repl(I, [state EXCEPT !.output = Append(@, [type |-> "error",
                                                          text |-> "Unknown command: ",
                                                          code |-> command])],
                  <<>>)

\* interpreter.execute(statements) returned or threw: the lines it emitted,
\* then the graph data or the error line
executed(state, ran, statements) ==
    IF Failed(ran) THEN Repl(ran, caught(onOutputLines(state, ran.output), ran.error), statements)
    ELSE Repl(ran, [onOutputLines(state, ran.output) EXCEPT !.graphData = toJSON(ran)], statements)

\* the try block of execute once the code is parsed
executeParsed(I, state, parsed) ==
    IF IsThrown(parsed) THEN Repl([I EXCEPT !.error = parsed.v], caught(state, parsed.v), <<>>)
    ELSE executed(state, After(I, parsed.v), parsed.v)

\* the try block of execute once the code is tokenized
executeTokens(I, state, tokens) ==
    IF IsThrown(tokens) THEN Repl([I EXCEPT !.error = tokens.v], caught(state, tokens.v), <<>>)
    ELSE executeParsed(I, state, parse(tokens.v))

\* a history that leaves the index where it is
remembered(state, trimmedCode) ==
    [state EXCEPT !.history = Append(@, trimmedCode),
                  !.output = Append(@, CommandLine(trimmedCode))]

\* the first update of execute: the history, its index, the echo
recorded(state, trimmedCode) ==
    [state EXCEPT !.history = Append(@, trimmedCode),
                  !.historyIndex = Len(state.history) + 1,
                  !.output = Append(@, CommandLine(trimmedCode))]

\* execute(code) from the trimmed code on
executeTrimmed(I, state, trimmedCode) ==
    IF Len(trimmedCode) = 0 THEN Repl(I, state, <<>>)
    ELSE IF trimmedCode[1] = 58
    THEN handleReplCommand(I, recorded(state, trimmedCode), trimmedCode)
    ELSE executeTokens(I, recorded(state, trimmedCode), tokenize(trimmedCode))

replExecute(I, state, code) == executeTrimmed(I, state, trim(code))

clearOutput(state) == [state EXCEPT !.output = <<>>]

\* the index navigateHistory moves to
newIndex(state, direction) ==
    IF direction = "up" THEN (IF state.historyIndex - 1 > 0 THEN state.historyIndex - 1 ELSE 0)
    ELSE (IF state.historyIndex + 1 < Len(state.history) THEN state.historyIndex + 1
          ELSE Len(state.history))

\* the state after navigateHistory(direction)
navigated(state, direction) ==
    IF Len(state.history) = 0 THEN state
    ELSE [state EXCEPT !.historyIndex = newIndex(state, direction)]

\* what navigateHistory(direction) returns: <<>> for null. The history is
\* 0-based in the code and 1-based here
navigateHistory(state, direction) ==
    IF Len(state.history) = 0 THEN <<>>
    ELSE IF newIndex(state, direction) < Len(state.history)
    THEN <<state.history[newIndex(state, direction) + 1]>>
    ELSE <<>>

(***************************************************************************)
(* SpecRepl: codes typed into the console, the arrow keys, clearOutput and *)
(* reset.                                                                  *)
(***************************************************************************)
ReplCodes ==
    { Line(<<"A", "IS", "B">>),
      <<32>> \o Line(<<"B", "IS", "A">>) \o <<32, 10>>,
      Line(<<"A", "HAS", "P", "5">>),
      Line(<<"A", "A", "B">>),
      Line(<<"A", "IS", "B">>) \o <<10>> \o Line(<<"B", "B", "A">>),
      Line(<<"A", "IS">>),
      <<36>>,
      <<32, 32>>,
      <<>>,
      ColonC, ColonG, ColonHelp,
      <<58, 120>> }

\* the interpreter and the store become those of r
ReplBecomes(r) ==
    /\ Becomes(r.interpreter)
    /\ store' = r.state
    /\ last' = r.statements

Execute(code) ==
    /\ steps < MaxSteps
    /\ ReplBecomes(replExecute(Current, store, code))
    /\ steps' = steps + 1
    /\ UNCHANGED <<drawn, returned>>

NavigateHistory(direction) ==
    /\ steps < MaxSteps
    /\ store' = navigated(store, direction)
    /\ returned' = navigateHistory(store, direction)
    /\ steps' = steps + 1
    /\ UNCHANGED <<nodes, parents, properties, context, whenSubject, output, error, last, drawn>>

ClearOutput ==
    /\ steps < MaxSteps
    /\ store' = clearOutput(store)
    /\ steps' = steps + 1
    /\ UNCHANGED <<nodes, parents, properties, context, whenSubject, output, error, last, drawn,
                   returned>>

\* init() and set(...)
Reset ==
    /\ steps < MaxSteps
    /\ Becomes(Fresh)
    /\ store' = InitialState
    /\ last' = <<>>
    /\ steps' = steps + 1
    /\ UNCHANGED <<drawn, returned>>

NextRepl ==
    \/ \E code \in ReplCodes : Execute(code)
    \/ \E direction \in {"up", "down"} : NavigateHistory(direction)
    \/ ClearOutput
    \/ Reset

SpecRepl == Init /\ [][NextRepl]_vars

\* C29: after every execute(code) of the store, completed or failed part-way
\* with a tokenizer, parser or runtime error, the store's graphData is the
\* toJSON of the interpreter's graph.
C29_GraphDataIsCurrentGraph == store.graphData = toJSON(Current)

\* a step that starts with graphData current and does not end in a runtime
\* error leaves it current
C29_CurrentUnlessRuntimeError ==
    [][(store.graphData = toJSON(Current) /\ error' \in {"none", "TokenizerError", "ParserError"})
           => store'.graphData = toJSON(Current')]_vars

\* an execute whose statements end in a runtime error leaves graphData as it
\* was, whatever the statements before the failing one did to the graph
C29_StaleAfterRuntimeError ==
    [][(/\ store'.history # store.history
        /\ last' # <<>>
        /\ error' \notin {"none", "TokenizerError", "ParserError"})
           => store'.graphData = store.graphData]_vars

\* C30: after any sequence of execute, navigateHistory, clearOutput and
\* reset, historyIndex is -1 when the history is empty and within
\* 0..history.length otherwise; an execute of a non-blank code appends the
\* trimmed code to the history and sets historyIndex to the new length, a
\* blank one changes nothing; navigateHistory returns history[newIndex], and
\* null exactly when the new index is history.length or the history is empty.
C30_HistoryIndexInRange ==
    /\ IF Len(store.history) = 0 THEN store.historyIndex = -1
       ELSE store.historyIndex \in 0..Len(store.history)
    /\ \A code \in ReplCodes :
           IF \A i \in 1..Len(code) : code[i] \in {32, 10}
           THEN replExecute(Current, store, code).state = store
           ELSE /\ \E i, j \in 1..Len(code) :
                      /\ code[i] \notin {32, 10} /\ \A k \in 1..(i - 1) : code[k] \in {32, 10}
                      /\ code[j] \notin {32, 10} /\ \A k \in (j + 1)..Len(code) : code[k] \in {32, 10}
                      /\ replExecute(Current, store, code).state.history
                             = Append(store.history, SubSeq(code, i, j))
                /\ replExecute(Current, store, code).state.historyIndex = Len(store.history) + 1
    /\ \A direction \in {"up", "down"} :
           /\ navigateHistory(store, direction) = <<>>
                  <=> \/ Len(store.history) = 0
                      \/ navigated(store, direction).historyIndex = Len(store.history)
           /\ navigateHistory(store, direction) # <<>>
                  => navigateHistory(store, direction)
                         = <<store.history[navigated(store, direction).historyIndex + 1]>>
           /\ navigated(store, direction).history = store.history

\* two codes were executed and the up key has returned the second of them
C30_Witness ==
    /\ Len(store.history) = 2
    /\ store.historyIndex = 1
    /\ returned = <<store.history[2]>>
    /\ store.history[1] # store.history[2]

====
